---- MODULE Spec2Model ----
(***************************************************************************)
(* AdSnap Studio: the API request/response layer (services/api_base.py,    *)
(* services/hd_image_generation_improved.py) and the two call              *)
(* orchestrators built on it (safe_api_call in app_cleaned.py,             *)
(* APIManager.make_api_call in app_improved.py) with their event logs.     *)
(*                                                                         *)
(* Conventions.  Python strings are sequences of pieces (an f-string is    *)
(* the concatenation of its pieces), so "" is << >>.  Python values are    *)
(* tagged records.  guidance_scale is a float in the source; the model     *)
(* counts it in tenths (7.5 is 75), so the bounds 1.0 and 20.0 are 10 and  *)
(* 200.  time.time() is read from a clock that only the wrapped function   *)
(* advances.                                                               *)
(***************************************************************************)
EXTENDS Integers, Sequences, FiniteSets, TLC

VARIABLES
  app,        \* which script the process runs: "cleaned" or "improved"
  env,        \* os.getenv('BRIA_API_KEY') in the process: None or a string
  eager,      \* whether importing the services package imports hd_image_generation_improved
              \* (with the key present both ways go alike and the first one is followed)
  boot,       \* per session: how its first script run ended (observer)
  monitor,    \* improved: session in which the module-level PerformanceMonitor() ran, 0 = not imported yet
  ss,         \* st.session_state, one dictionary per browser session
  now,        \* wall clock
  calls,      \* per session: orchestrated calls issued (observer)
  appends,    \* per session: list.append calls made on the event log (observer)
  last,       \* what the UI observed of the most recent orchestrated call (observer)
  hd_pc,      \* position of one generate_hd_image call followed stage by stage
  hd_args,    \* its arguments
  hd_data,    \* the payloads it handed to make_request, in order
  hd_resp,    \* what make_request gave back to it
  hd_out,     \* how the call ended
  hd_stages,  \* the stages it entered, in order (observer)
  hd_other,   \* a generate_hd_image call of another thread on the same service object
  rq_pc,      \* position of one make_request invocation taken on its own
  rq_in,      \* its arguments
  rq_net,     \* what the network did with its request
  rq_out,     \* how it ended, with the requests it sent and the lines it logged
  vf_file,    \* a file handed to the two file validators
  vf_service, \* how BaseAPIService.validate_image_file ended on it
  vf_page,    \* how validate_image of app_improved ended on it
  pending     \* per session, the orchestrated call that is under way, with its start_time

vars == <<app, env, eager, boot, monitor, ss, now, calls, appends, last,
          hd_pc, hd_args, hd_data, hd_resp, hd_out, hd_stages, hd_other,
          rq_pc, rq_in, rq_net, rq_out,
          vf_file, vf_service, vf_page, pending>>

orchVars == <<app, env, eager, boot, monitor, ss, now, calls, appends, last, pending>>
hdVars == <<hd_pc, hd_args, hd_data, hd_resp, hd_out, hd_stages, hd_other>>
rqVars == <<rq_pc, rq_in, rq_net, rq_out>>
vfVars == <<vf_file, vf_service, vf_page>>

(***************************************************************************)
(* Bounds                                                                  *)
(***************************************************************************)
MaxTime == 2        \* seconds the clock is followed for
MaxCalls == 2        \* orchestrated calls in one run, over all sessions
MaxPromptLen == 3    \* characters in a prompt

Sessions == {1, 2}   \* browser sessions served by the process

(***************************************************************************)
(* Python values                                                           *)
(***************************************************************************)
PyNone == [t |-> "None"]
PyStr(s) == [t |-> "str", s |-> s]
PyList(l) == [t |-> "list", l |-> l]
PyDict(d) == [t |-> "dict", d |-> d]
PyImage(b) == [t |-> "Image", bytes |-> b]
PyBool(b) == [t |-> "bool", b |-> b]
PyTuple(l) == [t |-> "tuple", l |-> l]

\* bool(v): None, "", [] and {} are falsy
Truthy(v) ==
  CASE v.t = "None" -> FALSE
    [] v.t = "bool" -> v.b
    [] v.t = "str" -> v.s # << >>
    [] v.t = "list" -> v.l # << >>
    [] v.t = "dict" -> DOMAIN v.d # {}
    [] OTHER -> TRUE

(***************************************************************************)
(* Exceptions: the classes the code raises or meets, each with its base    *)
(***************************************************************************)
Bases(cls) ==
  CASE cls = "Timeout" -> {"RequestException"}
    [] cls = "ConnectionError" -> {"RequestException"}
    [] cls = "JSONDecodeError" -> {"RequestException", "ValueError"}
    [] cls = "RequestException" -> {"OSError"}
    [] cls = "UnidentifiedImageError" -> {"OSError"}
    [] cls = "binascii.Error" -> {"ValueError"}
    [] cls = "IndexError" -> {"Exception"}
    [] cls = "KeyError" -> {"Exception"}
    [] cls = "TypeError" -> {"Exception"}
    [] cls = "AttributeError" -> {"Exception"}
    [] cls = "ValueError" -> {"Exception"}
    [] cls = "OSError" -> {"Exception"}
    [] cls = "BaseException" -> {}
    [] OTHER -> {"BaseException"}

RECURSIVE IsSubclass(_, _)
IsSubclass(cls, of) ==
  IF cls = of THEN TRUE
  ELSE \E b \in Bases(cls) : IsSubclass(b, of)

NoExc == [cls |-> "", msg |-> << >>]
Exc(cls, msg) == [cls |-> cls, msg |-> msg]

\* The end of a function call: the value it returned or the exception it
\* raised, the HTTP requests it sent and the log records it emitted.
Return(v, sent, lines) ==
  [kind |-> "return", value |-> v, exc |-> NoExc, sent |-> sent, lines |-> lines]
Raise(cls, msg, sent, lines) ==
  [kind |-> "raise", value |-> PyNone, exc |-> Exc(cls, msg), sent |-> sent, lines |-> lines]

(***************************************************************************)
(* Strings                                                                 *)
(***************************************************************************)
Chars == {" ", "a"}

\* str.isspace() of one character, the characters str.strip() removes; a
\* character with no escape of its own goes by its Python escape
IsSpace(c) ==
  c \in {" ", "\t", "\n", "\r", "\f", "\\x0b", "\\x1c", "\\x1d", "\\x1e", "\\x1f",
         "\\x85", "\\xa0", "\\u1680", "\\u2000", "\\u2001", "\\u2002", "\\u2003",
         "\\u2004", "\\u2005", "\\u2006", "\\u2007", "\\u2008", "\\u2009", "\\u200a",
         "\\u2028", "\\u2029", "\\u202f", "\\u205f", "\\u3000"}

RECURSIVE LStrip(_)
LStrip(s) == IF s # << >> /\ IsSpace(Head(s)) THEN LStrip(Tail(s)) ELSE s

RECURSIVE RStrip(_)
RStrip(s) ==
  IF s # << >> /\ IsSpace(s[Len(s)]) THEN RStrip(SubSeq(s, 1, Len(s) - 1)) ELSE s

\* str.strip()
Strip(s) == RStrip(LStrip(s))

\* str.upper(); a string is the sequence of its characters, and a character
\* outside ASCII goes by its Python escape.  The upper case of a character
\* may be longer than the character: the long s, the ligatures of s and t
\* and the sharp s become S, ST and SS.  The table holds the letters a-z and
\* the characters of the verbs below; every other character used here has
\* no upper case of its own.
RECURSIVE Upper(_)
Upper(m) ==
  LET lower == <<"a", "b", "c", "d", "e", "f", "g", "h", "i", "j", "k", "l", "m",
                 "n", "o", "p", "q", "r", "s", "t", "u", "v", "w", "x", "y", "z">>
      upper == <<"A", "B", "C", "D", "E", "F", "G", "H", "I", "J", "K", "L", "M",
                 "N", "O", "P", "Q", "R", "S", "T", "U", "V", "W", "X", "Y", "Z">>
      up(c) ==
        CASE \E i \in 1..26 : lower[i] = c ->
               <<upper[CHOOSE i \in 1..26 : lower[i] = c]>>
          [] c = "\\u017f" -> <<"S">>            \* long s
          [] c = "\\ufb05" -> <<"S", "T">>       \* ligature long s t
          [] c = "\\ufb06" -> <<"S", "T">>       \* ligature st
          [] c = "\\u00df" -> <<"S", "S">>       \* sharp s
          [] c = "\\u0131" -> <<"I">>            \* dotless i
          [] c = "\\u00e9" -> <<"\\u00c9">>      \* e with acute
          [] OTHER -> <<c>>
  IN IF m = << >> THEN << >> ELSE up(Head(m)) \o Upper(Tail(m))

RECURSIVE IsPrefix(_, _)
IsPrefix(k, s) ==
  IF k = << >> THEN TRUE
  ELSE IF s = << >> THEN FALSE
  ELSE Head(k) = Head(s) /\ IsPrefix(Tail(k), Tail(s))

\* k in s, for two strings
RECURSIVE IsSubstring(_, _)
IsSubstring(k, s) ==
  IF IsPrefix(k, s) THEN TRUE
  ELSE IF s = << >> THEN FALSE
  ELSE IsSubstring(k, Tail(s))

\* the characters of the dictionary keys the code looks up
KeyChars(k) ==
  CASE k = "result" -> <<"r", "e", "s", "u", "l", "t">>
    [] k = "images" -> <<"i", "m", "a", "g", "e", "s">>
    [] k = "result_url" -> <<"r", "e", "s", "u", "l", "t", "_", "u", "r", "l">>
    [] k = "result_urls" -> <<"r", "e", "s", "u", "l", "t", "_", "u", "r", "l", "s">>
    [] OTHER -> <<k>>

(***************************************************************************)
(* base64 (base64.b64encode, and base64.b64decode with validate=False)     *)
(***************************************************************************)
B64Chars ==
  <<"A", "B", "C", "D", "E", "F", "G", "H", "I", "J", "K", "L", "M",
    "N", "O", "P", "Q", "R", "S", "T", "U", "V", "W", "X", "Y", "Z",
    "a", "b", "c", "d", "e", "f", "g", "h", "i", "j", "k", "l", "m",
    "n", "o", "p", "q", "r", "s", "t", "u", "v", "w", "x", "y", "z",
    "0", "1", "2", "3", "4", "5", "6", "7", "8", "9", "+", "/">>

B64Char(n) == B64Chars[n + 1]
IsB64Char(c) == \E i \in 1..Len(B64Chars) : B64Chars[i] = c
B64Index(c) == (CHOOSE i \in 1..Len(B64Chars) : B64Chars[i] = c) - 1

RECURSIVE B64Encode(_)
B64Encode(b) ==
  IF Len(b) = 0 THEN << >>
  ELSE IF Len(b) = 1 THEN
    <<B64Char(b[1] \div 4), B64Char((b[1] % 4) * 16), "=", "=">>
  ELSE IF Len(b) = 2 THEN
    <<B64Char(b[1] \div 4), B64Char((b[1] % 4) * 16 + b[2] \div 16),
      B64Char((b[2] % 16) * 4), "=">>
  ELSE
    <<B64Char(b[1] \div 4), B64Char((b[1] % 4) * 16 + b[2] \div 16),
      B64Char((b[2] % 16) * 4 + b[3] \div 64), B64Char(b[3] % 64)>>
    \o B64Encode(SubSeq(b, 4, Len(b)))

\* binascii.a2b_base64, non-strict: characters outside the alphabet are
\* skipped, a complete pad sequence ends the input, and data left in an
\* unfinished quad is an error.
RECURSIVE B64Scan(_, _, _, _, _)
B64Scan(s, quad_pos, leftchar, pads, out) ==
  IF s = << >> THEN [ok |-> quad_pos = 0, bytes |-> out]
  ELSE IF Head(s) = "=" THEN
    IF quad_pos >= 2 /\ quad_pos + pads + 1 >= 4 THEN [ok |-> TRUE, bytes |-> out]
    ELSE B64Scan(Tail(s), quad_pos, leftchar, IF quad_pos >= 2 THEN pads + 1 ELSE pads, out)
  ELSE IF ~IsB64Char(Head(s)) THEN B64Scan(Tail(s), quad_pos, leftchar, pads, out)
  ELSE
    LET c == B64Index(Head(s)) IN
    CASE quad_pos = 0 -> B64Scan(Tail(s), 1, c, 0, out)
      [] quad_pos = 1 ->
           B64Scan(Tail(s), 2, c % 16, 0, Append(out, leftchar * 4 + c \div 16))
      [] quad_pos = 2 ->
           B64Scan(Tail(s), 3, c % 4, 0, Append(out, leftchar * 16 + c \div 4))
      [] OTHER ->
           B64Scan(Tail(s), 0, 0, 0, Append(out, leftchar * 64 + c))

\* Mutant of B64Decode: the byte of a padded final group is lost.
B64DecodeM(s) ==
  LET d == B64Scan(s, 0, 0, 0, << >>) IN
  IF s # << >> /\ s[Len(s)] = "=" /\ Len(d.bytes) > 1
  THEN [ok |-> d.ok, bytes |-> SubSeq(d.bytes, 1, Len(d.bytes) - 1)]
  ELSE d

\* base64.b64decode(s)
B64Decode(s) == B64Scan(s, 0, 0, 0, << >>)

\* Image.open(io.BytesIO(b)) of the Pillow library: it identifies the file
\* by its signature and keeps the bytes; a PNG file starts with byte 137 and
\* a JPEG file with byte 255.
IsImageFile(b) == Len(b) > 0 /\ b[1] \in {137, 255}

(***************************************************************************)
(* Parsed JSON bodies                                                      *)
(***************************************************************************)
EmptyDict == [k \in {} |-> PyNone]
CanContain(v) == v.t \in {"dict", "list", "str"}

\* key in v
Contains(v, key) ==
  CASE v.t = "dict" -> key \in DOMAIN v.d
    [] v.t = "list" -> \E i \in 1..Len(v.l) : v.l[i] = PyStr(KeyChars(key))
    [] v.t = "str" -> IsSubstring(KeyChars(key), v.s)
    [] OTHER -> FALSE

(***************************************************************************)
(* services/api_base.py: BaseAPIService                                    *)
(***************************************************************************)
ApiKey == "BRIA_API_KEY-value"
BaseUrl == "https://engine.prod.bria-api.com"
DefaultTimeout == 60

\* BaseAPIService.__init__ with the environment's key: the exception it
\* raises, or NoExc
ServiceInit(key) ==
  IF ~Truthy(key)
  THEN Exc("ValueError", <<"BRIA_API_KEY not found in environment variables">>)
  ELSE NoExc

GetHeaders ==
  [Authorization |-> <<"Bearer ", ApiKey>>, ContentType |-> <<"application/json">>]

LogLine(level, msg) == [level |-> level, msg |-> msg]

\* What the network does with one HTTP request: a response (status, text,
\* parsed body or "notjson"), a timeout, a connection failure, or another
\* failure of the requests library.
NetResponse(status, text, json) ==
  [t |-> "response", status |-> status, text |-> text, json |-> json]
NetTimeout == [t |-> "timeout"]
NetConnectionError == [t |-> "connection"]
NetOther == [t |-> "other", msg |-> <<"Exceeded 30 redirects.">>]
NotJson == [t |-> "notjson"]
NoNet == [t |-> "none"]

\* Mutant of MakeRequestUnexpected: the handler lets a ValueError through
\* once it has logged it.
MakeRequestUnexpectedReraiseM(endpoint, msg, sent, lines) ==
  Raise("ValueError", msg, sent,
        Append(lines, LogLine("ERROR", <<"Unexpected error for ", endpoint, ": ">> \o msg)))

\* The last handler of make_request: any exception raised in the try block
\* that is not a Timeout or a ConnectionError is logged and replaced by a
\* RequestException whose text embeds the text of the original.
MakeRequestUnexpected(endpoint, msg, sent, lines) ==
  Raise("RequestException", <<"Unexpected error for ", endpoint, ": ">> \o msg, sent,
        Append(lines, LogLine("ERROR", <<"Unexpected error for ", endpoint, ": ">> \o msg)))

\* The requests.post / requests.get call make_request builds
HttpRequest(endpoint, method, data, files, timeout) ==
  LET url == <<BaseUrl, "/", endpoint>>
      headers == IF ~Truthy(files) THEN GetHeaders
                 ELSE [Authorization |-> <<"Bearer ", ApiKey>>]
  IN IF Upper(method) = <<"P", "O", "S", "T">> THEN
       IF Truthy(files)
       THEN [verb |-> "POST", url |-> url, headers |-> headers, body |-> "multipart",
             data |-> data, files |-> files, timeout |-> timeout]
       ELSE [verb |-> "POST", url |-> url, headers |-> headers, body |-> "json",
             data |-> data, files |-> PyNone, timeout |-> timeout]
     ELSE [verb |-> "GET", url |-> url, headers |-> headers, body |-> "params",
           data |-> data, files |-> PyNone, timeout |-> timeout]

\* Mutant of MakeRequest's sending: a failed attempt is sent a second time.
SendOnceM(req, net) ==
  IF net.t = "response" /\ net.status = 200 THEN <<req>> ELSE <<req, req>>

\* The requests make_request sends for one invocation
SendOnce(req, net) == <<req>>

MakeRequest(endpoint, method, data, files, timeout, net) ==
  IF Upper(method) \notin {<<"P", "O", "S", "T">>, <<"G", "E", "T">>} THEN
    MakeRequestUnexpected(endpoint, <<"Unsupported HTTP method: ">> \o method, << >>, << >>)
  ELSE
    LET sent == SendOnce(HttpRequest(endpoint, method, data, files, timeout), net) IN
    CASE net.t = "timeout" ->
           Raise("RequestException",
                 <<"Request timeout after ", ToString(timeout), "s for ", endpoint>>, sent,
                 <<LogLine("ERROR", <<"Request timeout after ", ToString(timeout), "s for ", endpoint>>)>>)
      [] net.t = "connection" ->
           Raise("RequestException", <<"Connection error for ", endpoint>>, sent,
                 <<LogLine("ERROR", <<"Connection error for ", endpoint>>)>>)
      [] net.t = "other" ->
           MakeRequestUnexpected(endpoint, net.msg, sent, << >>)
      [] OTHER ->
           LET info == LogLine("INFO", <<"API Request: ">> \o method
                                       \o <<" ", endpoint, " - Status: ", ToString(net.status),
                                            " - Duration: ", "%.2f", "s">>)
               error_msg == <<"API Error: ", ToString(net.status), " - ">> \o net.text
           IN IF net.status = 200 THEN
                IF net.json = NotJson
                THEN MakeRequestUnexpected(endpoint, <<"Expecting value: line 1 column 1 (char 0)">>,
                                           sent, <<info>>)
                ELSE Return(net.json, sent, <<info>>)
              ELSE MakeRequestUnexpected(endpoint, error_msg, sent,
                                         <<info, LogLine("ERROR", error_msg)>>)

\* An uploaded file as the validators see it: whether it has the attributes
\* size and type, and their values
UploadedFile(has_size, size, has_type, type) ==
  [t |-> "file", has_size |-> has_size, size |-> size, has_type |-> has_type, type |-> type]

MaxUploadBytes == 10 * 1024 * 1024
ValidTypes == {"image/jpeg", "image/png", "image/webp"}
InvalidTypeText ==
  <<"Invalid file type. Supported: ", "image/jpeg", ", ", "image/png", ", ", "image/webp">>

\* Mutant of ValidateImageFile: a file of exactly the cap is too large.
ValidateImageFileM(image_file) ==
  IF ~Truthy(image_file) THEN Return(PyBool(FALSE), << >>, << >>)
  ELSE IF image_file.t = "file" /\ image_file.has_size /\ image_file.size >= MaxUploadBytes
  THEN Raise("ValueError", <<"Image file too large (max 10MB)">>, << >>, << >>)
  ELSE IF image_file.t = "file" /\ image_file.has_type /\ image_file.type \notin ValidTypes
  THEN Raise("ValueError", InvalidTypeText, << >>, << >>)
  ELSE Return(PyBool(TRUE), << >>, << >>)

\* BaseAPIService.validate_image_file
ValidateImageFile(image_file) ==
  IF ~Truthy(image_file) THEN Return(PyBool(FALSE), << >>, << >>)
  ELSE IF image_file.t = "file" /\ image_file.has_size /\ image_file.size > MaxUploadBytes
  THEN Raise("ValueError", <<"Image file too large (max 10MB)">>, << >>, << >>)
  ELSE IF image_file.t = "file" /\ image_file.has_type /\ image_file.type \notin ValidTypes
  THEN Raise("ValueError", InvalidTypeText, << >>, << >>)
  ELSE Return(PyBool(TRUE), << >>, << >>)

(***************************************************************************)
(* services/hd_image_generation_improved.py: generate_hd_image             *)
(***************************************************************************)
HdEndpoint == "v1/text-to-image"

\* Mutant of ValidateHd: the stride test on width is forgotten.
ValidateHdM(a) ==
  IF a.prompt = << >> \/ Len(Strip(a.prompt)) = 0 THEN
    Exc("ValueError", <<"Prompt cannot be empty">>)
  ELSE IF ~(256 <= a.width /\ a.width <= 1024) THEN
    Exc("ValueError", <<"Width must be between 256-1024 and divisible by 64">>)
  ELSE IF ~(256 <= a.height /\ a.height <= 1024) \/ a.height % 64 # 0 THEN
    Exc("ValueError", <<"Height must be between 256-1024 and divisible by 64">>)
  ELSE IF ~(10 <= a.num_inference_steps /\ a.num_inference_steps <= 50) THEN
    Exc("ValueError", <<"Inference steps must be between 10-50">>)
  ELSE IF ~(10 <= a.guidance_scale /\ a.guidance_scale <= 200) THEN
    Exc("ValueError", <<"Guidance scale must be between 1.0-20.0">>)
  ELSE NoExc

\* Mutant of ValidateHd: the height is tested before the width.
ValidateHdHeightFirstM(a) ==
  IF a.prompt = << >> \/ Len(Strip(a.prompt)) = 0 THEN
    Exc("ValueError", <<"Prompt cannot be empty">>)
  ELSE IF ~(256 <= a.height /\ a.height <= 1024) \/ a.height % 64 # 0 THEN
    Exc("ValueError", <<"Height must be between 256-1024 and divisible by 64">>)
  ELSE IF ~(256 <= a.width /\ a.width <= 1024) \/ a.width % 64 # 0 THEN
    Exc("ValueError", <<"Width must be between 256-1024 and divisible by 64">>)
  ELSE IF ~(10 <= a.num_inference_steps /\ a.num_inference_steps <= 50) THEN
    Exc("ValueError", <<"Inference steps must be between 10-50">>)
  ELSE IF ~(10 <= a.guidance_scale /\ a.guidance_scale <= 200) THEN
    Exc("ValueError", <<"Guidance scale must be between 1.0-20.0">>)
  ELSE NoExc

\* The parameter checks, in the order of the source: the exception of the
\* first violated rule, or NoExc.
ValidateHd(a) ==
  IF a.prompt = << >> \/ Len(Strip(a.prompt)) = 0 THEN
    Exc("ValueError", <<"Prompt cannot be empty">>)
  ELSE IF ~(256 <= a.width /\ a.width <= 1024) \/ a.width % 64 # 0 THEN
    Exc("ValueError", <<"Width must be between 256-1024 and divisible by 64">>)
  ELSE IF ~(256 <= a.height /\ a.height <= 1024) \/ a.height % 64 # 0 THEN
    Exc("ValueError", <<"Height must be between 256-1024 and divisible by 64">>)
  ELSE IF ~(10 <= a.num_inference_steps /\ a.num_inference_steps <= 50) THEN
    Exc("ValueError", <<"Inference steps must be between 10-50">>)
  ELSE IF ~(10 <= a.guidance_scale /\ a.guidance_scale <= 200) THEN
    Exc("ValueError", <<"Guidance scale must be between 1.0-20.0">>)
  ELSE NoExc

\* Mutant of HdData: the prompt is forwarded untrimmed.
HdDataM(a) ==
  [prompt |-> a.prompt, width |-> a.width, height |-> a.height,
   num_inference_steps |-> a.num_inference_steps, guidance_scale |-> a.guidance_scale]

\* The request data dictionary
HdData(a) ==
  [prompt |-> Strip(a.prompt), width |-> a.width, height |-> a.height,
   num_inference_steps |-> a.num_inference_steps, guidance_scale |-> a.guidance_scale]

\* The module-level hd_image_service = HDImageGenerationService(), run when
\* the module is imported
HdServiceInstance(key) == ServiceInit(key)

\* `from services import (...)` at the top of both application scripts,
\* before load_dotenv().  The __init__.py of the package is not part of the
\* source tree: it either imports hd_image_generation_improved when the
\* package is imported (imports_hd), which constructs the service object, or
\* leaves that import to the first use of generate_hd_image.
ImportServices(key, imports_hd) ==
  IF imports_hd THEN HdServiceInstance(key) ELSE NoExc

\* v[0]
Index0(v) ==
  CASE v.t = "list" /\ v.l # << >> -> [ok |-> TRUE, item |-> v.l[1], cls |-> ""]
    [] v.t = "list" -> [ok |-> FALSE, item |-> PyNone, cls |-> "IndexError"]
    [] v.t = "str" /\ v.s # << >> -> [ok |-> TRUE, item |-> PyStr(<<v.s[1]>>), cls |-> ""]
    [] v.t = "str" -> [ok |-> FALSE, item |-> PyNone, cls |-> "IndexError"]
    [] v.t = "dict" -> [ok |-> FALSE, item |-> PyNone, cls |-> "KeyError"]
    [] OTHER -> [ok |-> FALSE, item |-> PyNone, cls |-> "TypeError"]

\* Mutant of DecodeImage: an image that is no string yields None.
DecodeImageM(image_data) ==
  IF image_data.t = "str" THEN
    LET d == B64Decode(image_data.s) IN
    IF ~d.ok THEN Raise("binascii.Error", <<"Incorrect padding">>, << >>, << >>)
    ELSE IF ~IsImageFile(d.bytes)
    THEN Raise("UnidentifiedImageError", <<"cannot identify image file">>, << >>, << >>)
    ELSE Return(PyImage(d.bytes), << >>, << >>)
  ELSE Return(PyNone, << >>, << >>)

\* The handling of the first image of the response
DecodeImage(image_data) ==
  IF image_data.t = "str" THEN
    LET d == B64Decode(image_data.s) IN
    IF ~d.ok THEN Raise("binascii.Error", <<"Incorrect padding">>, << >>, << >>)
    ELSE IF ~IsImageFile(d.bytes)
    THEN Raise("UnidentifiedImageError", <<"cannot identify image file">>, << >>, << >>)
    ELSE Return(PyImage(d.bytes), << >>, << >>)
  ELSE Raise("ValueError", <<"Unexpected image format in response">>, << >>, << >>)

\* "Process response": from the parsed body to the image or the exception
ParseHd(response_data) ==
  IF ~CanContain(response_data) THEN
    Raise("TypeError", <<"argument of type is not iterable">>, << >>, << >>)
  ELSE IF ~Contains(response_data, "result") THEN
    Raise("ValueError", <<"Invalid response format from API">>, << >>, << >>)
  ELSE IF response_data.t # "dict" THEN
    Raise("TypeError", <<"indices must be integers">>, << >>, << >>)
  ELSE
    LET result == response_data.d.result IN
    IF ~CanContain(result) THEN
      Raise("TypeError", <<"argument of type is not iterable">>, << >>, << >>)
    ELSE IF ~Contains(result, "images") THEN
      Raise("ValueError", <<"Invalid response format from API">>, << >>, << >>)
    ELSE IF result.t # "dict" THEN
      Raise("TypeError", <<"indices must be integers">>, << >>, << >>)
    ELSE
      LET first == Index0(result.d.images) IN
      IF ~first.ok THEN Raise(first.cls, <<"index 0">>, << >>, << >>)
      ELSE DecodeImage(first.item)

\* The call of make_request that generate_hd_image makes
HdRequest(a, net) ==
  MakeRequest(HdEndpoint, <<"P", "O", "S", "T">>, PyDict(HdData(a)), PyNone,
              DefaultTimeout, net)

\* generate_hd_image as a whole: validate, send, parse
GenerateHdImage(a, net) ==
  IF ValidateHd(a) # NoExc THEN
    Raise(ValidateHd(a).cls, ValidateHd(a).msg, << >>, << >>)
  ELSE
    LET r == HdRequest(a, net) IN
    IF r.kind = "raise" THEN r
    ELSE [ParseHd(r.value) EXCEPT !.sent = r.sent, !.lines = r.lines]

(***************************************************************************)
(* Inputs                                                                  *)
(***************************************************************************)
\* prompts: every text over Chars up to the bound, and texts with other
\* white space
Prompts ==
  UNION {[1..k -> Chars] : k \in 0..MaxPromptLen}
  \cup {<<"\t">>, <<"\n", "a", "\t">>}
Dims == {192, 255, 256, 300, 320, 1024, 1025, 1088}

\* the argument sets of generate_hd_image; guidance_scale is in tenths
HdArgSets ==
  [prompt : Prompts, width : Dims, height : Dims,
   num_inference_steps : {9, 10, 50, 51}, guidance_scale : {9, 10, 75, 200, 201}]

\* image files (PNG, JPEG) and a file that is no image
SampleImages ==
  {<<137>>, <<137, 80>>, <<137, 80, 78>>, <<255, 216, 255, 224>>, <<255, 251, 239, 190, 0>>}

BodyImages(l) == PyDict([result |-> PyDict([images |-> PyList(l)])])

\* status-200 bodies with one base64 image string as result.images[0]
GoodBodies == {BodyImages(<<PyStr(B64Encode(b))>>) : b \in SampleImages}

\* status-200 bodies of any other shape
BadBodies ==
  { PyDict(EmptyDict),                                  \* no 'result'
    PyDict([result |-> PyDict(EmptyDict)]),              \* no 'images'
    BodyImages(<< >>),                                   \* empty images list
    BodyImages(<<PyDict([url |-> PyStr(<<"https://x/1.png">>)])>>),  \* first image not a string
    BodyImages(<<PyStr(<<"i", "V", "A">>)>>),            \* string with bad padding
    BodyImages(<<PyStr(B64Encode(<<71, 73>>))>>),           \* base64 of something that is no image
    PyDict([result |-> PyStr(B64Encode(<<137, 80>>))]),  \* image string directly under 'result'
    PyDict([result |-> PyNone]),
    PyNone,
    NotJson }

\* a body with two images
TwoImages == BodyImages(<<PyStr(B64Encode(<<137>>)), PyStr(B64Encode(<<137, 80>>))>>)

NetOutcomes ==
  {NetResponse(200, <<"ok">>, b) : b \in GoodBodies \cup BadBodies \cup {TwoImages}}
  \cup {NetResponse(st, <<"error text">>, NotJson) : st \in {201, 404, 500}}
  \cup {NetTimeout, NetConnectionError, NetOther}

(***************************************************************************)
(* One generate_hd_image call, stage by stage                              *)
(***************************************************************************)
NoOutcome == [kind |-> "none", value |-> PyNone, exc |-> NoExc, sent |-> << >>, lines |-> << >>]
DefaultArgs ==
  [prompt |-> <<"a">>, width |-> 256, height |-> 256,
   num_inference_steps |-> 10, guidance_scale |-> 10]

\* no call has been made; the call of the other thread will be
\* generate_hd_image('aa', 320, 320, 50, 20.0)
HdIdle ==
  /\ hd_pc = "Idle"
  /\ hd_data = << >>
  /\ hd_resp = NoOutcome
  /\ hd_out = NoOutcome
  /\ hd_stages = << >>
  /\ hd_other = [pc |-> "Idle",
                 args |-> [prompt |-> <<"a", "a">>, width |-> 320, height |-> 320,
                           num_inference_steps |-> 50, guidance_scale |-> 200],
                 data |-> << >>, resp |-> NoOutcome, out |-> NoOutcome, stages |-> << >>]

\* The next stage of a call c of generate_hd_image, the network answering
\* net when the call is waiting for the answer to its request.  c tells
\* where the call is (pc), its arguments, the requests it handed to
\* make_request (data), what make_request gave back (resp), how the call
\* ended (out) and the stages it entered:
\*   the call is made;
\*   lines 36-50, the rules on the arguments;
\*   lines 52-62, the payload is handed to make_request, which sends it;
\*   line 62, requests.post returns or raises and make_request ends;
\*   lines 64-76, the body is read.
HdAdvance(c, net) ==
  CASE c.pc = "Idle" ->
         [c EXCEPT !.pc = "Validating", !.stages = Append(@, "Validating")]
    [] c.pc = "Validating" ->
         IF ValidateHd(c.args) # NoExc
         THEN [c EXCEPT !.pc = "ValidationFailed",
                        !.out = Raise(ValidateHd(c.args).cls, ValidateHd(c.args).msg,
                                      << >>, << >>),
                        !.stages = Append(@, "ValidationFailed")]
         ELSE [c EXCEPT !.pc = "Sending", !.stages = Append(@, "Sending")]
    [] c.pc = "Sending" /\ c.data = << >> ->
         [c EXCEPT !.data = <<HttpRequest(HdEndpoint, <<"P", "O", "S", "T">>,
                                          PyDict(HdData(c.args)), PyNone, DefaultTimeout)>>]
    [] c.pc = "Sending" ->
         LET r == HdRequest(c.args, net) IN
         IF r.kind = "raise"
         THEN [c EXCEPT !.pc = "NetworkFailed", !.resp = r, !.out = r,
                        !.stages = Append(@, "NetworkFailed")]
         ELSE [c EXCEPT !.pc = "AwaitingParse", !.resp = r,
                        !.stages = Append(@, "AwaitingParse")]
    [] c.pc = "AwaitingParse" ->
         LET parsed == [ParseHd(c.resp.value) EXCEPT !.sent = c.resp.sent,
                                                     !.lines = c.resp.lines]
             pc == IF parsed.kind = "raise" THEN "ParseFailed" ELSE "Succeeded"
         IN [c EXCEPT !.pc = pc, !.out = parsed, !.stages = Append(@, pc)]
    [] OTHER -> c

\* the call that is followed takes its next stage
HdTake(net) ==
  LET c == HdAdvance([pc |-> hd_pc, args |-> hd_args, data |-> hd_data, resp |-> hd_resp,
                      out |-> hd_out, stages |-> hd_stages], net) IN
  /\ hd_pc' = c.pc
  /\ hd_args' = c.args
  /\ hd_data' = c.data
  /\ hd_resp' = c.resp
  /\ hd_out' = c.out
  /\ hd_stages' = c.stages
  /\ UNCHANGED hd_other

\* the call is made
HdBegin == hd_pc = "Idle" /\ HdTake(NoNet)

\* lines 36-50
HdValidate == hd_pc = "Validating" /\ HdTake(NoNet)

\* lines 52-62: make_request is called with the payload and sends the
\* request; the thread now waits in requests.post
HdSend == hd_pc = "Sending" /\ hd_data = << >> /\ HdTake(NoNet)

\* line 62: the answer, the timeout or the failure of the transport arrives
\* and make_request returns or raises
HdReceive == hd_pc = "Sending" /\ hd_data # << >> /\ \E net \in NetOutcomes : HdTake(net)

\* lines 64-76
HdParse == hd_pc = "AwaitingParse" /\ HdTake(NoNet)

\* hd_image_service is one object of the module, shared by every caller: a
\* call of another thread takes its next stage, at any moment of the call
\* that is followed
HdOther ==
  /\ \E net \in {NetResponse(200, <<"ok">>, BodyImages(<<PyStr(B64Encode(<<137>>))>>)),
                 NetTimeout} :
       hd_other' = HdAdvance(hd_other, net)
  /\ hd_other' # hd_other
  /\ UNCHANGED <<hd_pc, hd_args, hd_data, hd_resp, hd_out, hd_stages>>

(***************************************************************************)
(* One make_request invocation, over all its arguments                     *)
(***************************************************************************)
RqMethods ==
  {<<"P", "O", "S", "T">>, <<"p", "o", "s", "t">>, <<"P", "o", "s", "t">>, <<"p", "O", "S", "T">>,
   <<"G", "E", "T">>, <<"g", "e", "t">>, <<"G", "e", "t">>,
   <<"p", "o", "\\u017f", "t">>, <<"p", "o", "\\ufb06">>, <<"g", "\\u00e9", "t">>,
   <<"s", "t", "r", "a", "\\u00df", "e">>,
   <<"P", "U", "T">>, <<"p", "u", "t">>, <<"d", "e", "l", "e", "t", "e">>,
   <<"P", "A", "T", "C", "H">>, << >>}

RequestArgSets ==
  [endpoint : {HdEndpoint, "v1/background/remove"},
   method : RqMethods,
   data : {PyNone, PyDict(EmptyDict), PyDict(HdData(DefaultArgs))},
   files : {PyNone, PyDict(EmptyDict), PyDict([file |-> PyStr(<<"a">>)])},
   timeout : {1, DefaultTimeout}]

DefaultRequest ==
  [endpoint |-> HdEndpoint, method |-> <<"P", "O", "S", "T">>, data |-> PyNone,
   files |-> PyNone,
   timeout |-> DefaultTimeout]

RqIdle ==
  /\ rq_pc = "Idle"
  /\ rq_net = NoNet
  /\ rq_out = NoOutcome

\* make_request(endpoint, method, data, files, timeout), the network
\* answering the request, if one is sent, with net
\* lines 49-66: make_request is called; with a method that is neither POST
\* nor GET it ends at once (line 66 and the handler of line 87), otherwise
\* the request goes out and the thread waits in requests.post / requests.get
RqInvoke ==
  /\ rq_pc = "Idle"
  /\ LET r == MakeRequest(rq_in.endpoint, rq_in.method, rq_in.data, rq_in.files,
                          rq_in.timeout, NoNet)
     IN IF Upper(rq_in.method) \notin {<<"P", "O", "S", "T">>, <<"G", "E", "T">>}
        THEN rq_out' = r /\ rq_pc' = "Raised"
        ELSE /\ rq_out' = [NoOutcome EXCEPT !.sent = <<HttpRequest(rq_in.endpoint, rq_in.method,
                                                  rq_in.data, rq_in.files, rq_in.timeout)>>]
             /\ rq_pc' = "Waiting"
  /\ UNCHANGED <<rq_in, rq_net>>

\* lines 59-91: the answer, the timeout or the failure of the transport
\* arrives and make_request returns or raises
RqAnswer ==
  /\ rq_pc = "Waiting"
  /\ \E net \in NetOutcomes :
       LET r == MakeRequest(rq_in.endpoint, rq_in.method, rq_in.data, rq_in.files,
                            rq_in.timeout, net)
       IN /\ rq_out' = r
          /\ rq_net' = net
          /\ rq_pc' = IF r.kind = "return" THEN "Returned" ELSE "Raised"
  /\ UNCHANGED rq_in

(***************************************************************************)
(* st.session_state                                                        *)
(***************************************************************************)
HistoryCap == 100

\* average_generation_time is a float in the source; the model keeps it as
\* an exact fraction num/den in lowest terms.
RECURSIVE Gcd(_, _)
Gcd(a, b) == IF b = 0 THEN a ELSE Gcd(b, a % b)
Frac(n, d) == IF n = 0 THEN [num |-> 0, den |-> 1]
              ELSE [num |-> n \div Gcd(n, d), den |-> d \div Gcd(n, d)]

\* a session before its first script run: no keys
FreshSession ==
  [keys |-> {},
   api_key |-> PyNone,
   generation_history |-> << >>,
   performance_metrics |->
     [total_generations |-> 0, successful_generations |-> 0,
      average_generation_time |-> Frac(0, 1), error_count |-> 0],
   performance_data |-> << >>,
   api_calls |-> << >>,
   generated_images |-> PyList(<< >>),
   edited_image |-> PyNone,
   processing_history |-> << >>,
   original_prompt |-> << >>,
   enhanced_prompt |-> PyNone,
   prompt_widget |-> << >>]    \* the text in the prompt text_area of the session

\* for key, value in defaults.items(): if key not in st.session_state: ...
SetDefaults(st, ks) == [st EXCEPT !.keys = @ \cup ks]

CleanedKeys ==
  {"api_key", "generated_images", "current_image", "pending_urls", "edited_image",
   "original_prompt", "enhanced_prompt", "generation_history", "performance_metrics"}
ImprovedKeys == {"api_key", "generated_images", "processing_history", "usage_stats"}
MonitorKeys == {"performance_data", "api_calls"}

(***************************************************************************)
(* app_cleaned.py: log_generation_attempt and safe_api_call                *)
(***************************************************************************)
\* Mutant of LogGenerationAttempt: past the cap the oldest entries are kept
\* and the new one is dropped.
LogGenerationAttemptKeepOldestM(st, operation_type, success, duration, error, timestamp) ==
  LET m == st.performance_metrics
      total_successful == m.successful_generations + 1
      current_avg == m.average_generation_time
      new_avg == Frac(current_avg.num * (total_successful - 1) + duration * current_avg.den,
                      current_avg.den * total_successful)
      metrics ==
        IF success THEN
          [m EXCEPT !.total_generations = @ + 1,
                    !.successful_generations = total_successful,
                    !.average_generation_time = IF duration # 0 THEN new_avg ELSE @]
        ELSE [m EXCEPT !.total_generations = @ + 1, !.error_count = @ + 1]
      history_entry ==
        [timestamp |-> timestamp, operation |-> operation_type, success |-> success,
         duration |-> duration, error |-> error]
      history == Append(st.generation_history, history_entry)
  IN [st EXCEPT !.performance_metrics = metrics,
                !.generation_history =
                   IF Len(history) > HistoryCap
                   THEN SubSeq(history, 1, HistoryCap)
                   ELSE history]

\* Mutant of LogGenerationAttempt: a failed attempt is not counted as an error.
LogGenerationAttemptUncountedM(st, operation_type, success, duration, error, timestamp) ==
  LET m == st.performance_metrics
      total_successful == m.successful_generations + 1
      current_avg == m.average_generation_time
      new_avg == Frac(current_avg.num * (total_successful - 1) + duration * current_avg.den,
                      current_avg.den * total_successful)
      metrics ==
        IF success THEN
          [m EXCEPT !.total_generations = @ + 1,
                    !.successful_generations = total_successful,
                    !.average_generation_time = IF duration # 0 THEN new_avg ELSE @]
        ELSE [m EXCEPT !.total_generations = @ + 1]
      history_entry ==
        [timestamp |-> timestamp, operation |-> operation_type, success |-> success,
         duration |-> duration, error |-> error]
      history == Append(st.generation_history, history_entry)
  IN [st EXCEPT !.performance_metrics = metrics,
                !.generation_history =
                   IF Len(history) > HistoryCap
                   THEN SubSeq(history, Len(history) - HistoryCap + 1, Len(history))
                   ELSE history]

\* Mutant of LogGenerationAttempt: past the cap one entry too many is dropped.
LogGenerationAttemptShortM(st, operation_type, success, duration, error, timestamp) ==
  LET m == st.performance_metrics
      total_successful == m.successful_generations + 1
      current_avg == m.average_generation_time
      new_avg == Frac(current_avg.num * (total_successful - 1) + duration * current_avg.den,
                      current_avg.den * total_successful)
      metrics ==
        IF success THEN
          [m EXCEPT !.total_generations = @ + 1,
                    !.successful_generations = total_successful,
                    !.average_generation_time = IF duration # 0 THEN new_avg ELSE @]
        ELSE [m EXCEPT !.total_generations = @ + 1, !.error_count = @ + 1]
      history_entry ==
        [timestamp |-> timestamp, operation |-> operation_type, success |-> success,
         duration |-> duration, error |-> error]
      history == Append(st.generation_history, history_entry)
  IN [st EXCEPT !.performance_metrics = metrics,
                !.generation_history =
                   IF Len(history) > HistoryCap
                   THEN SubSeq(history, Len(history) - HistoryCap + 2, Len(history))
                   ELSE history]

\* log_generation_attempt(operation_type, success, duration, error)
LogGenerationAttempt(st, operation_type, success, duration, error, timestamp) ==
  LET m == st.performance_metrics
      total_successful == m.successful_generations + 1
      current_avg == m.average_generation_time
      new_avg == Frac(current_avg.num * (total_successful - 1) + duration * current_avg.den,
                      current_avg.den * total_successful)
      metrics ==
        IF success THEN
          [m EXCEPT !.total_generations = @ + 1,
                    !.successful_generations = total_successful,
                    !.average_generation_time = IF duration # 0 THEN new_avg ELSE @]
        ELSE [m EXCEPT !.total_generations = @ + 1, !.error_count = @ + 1]
      history_entry ==
        [timestamp |-> timestamp, operation |-> operation_type, success |-> success,
         duration |-> duration, error |-> error]
      history == Append(st.generation_history, history_entry)
  IN [st EXCEPT !.performance_metrics = metrics,
                !.generation_history =
                   IF Len(history) > HistoryCap
                   THEN SubSeq(history, Len(history) - HistoryCap + 1, Len(history))
                   ELSE history]

\* The handler safe_api_call takes for the exception e, by the order of its
\* except clauses; "" when none of them catches it.
SafeHandler(e) ==
  IF IsSubclass(e.cls, "RequestException") THEN "Network error"
  ELSE IF IsSubclass(e.cls, "ValueError") THEN "Invalid input"
  ELSE IF IsSubclass(e.cls, "Exception") THEN "Unexpected error"
  ELSE ""

\* safe_api_call(api_function, operation_name, ...) in session state st,
\* where the wrapped function ends as `outcome` after `duration` seconds.
\* Gives the new session state, the value returned (or the exception that
\* leaves the function), the st.error text and the appends made.
SafeApiCall(st, operation_name, outcome, duration, timestamp) ==
  IF outcome.kind = "return" THEN
    [st |-> LogGenerationAttempt(st, operation_name, TRUE, duration, PyNone, timestamp),
     escaped |-> FALSE, exc |-> NoExc, result |-> outcome.value, error |-> PyNone,
     shown |-> PyNone, appended |-> 1]
  ELSE IF SafeHandler(outcome.exc) = "" THEN
    [st |-> st, escaped |-> TRUE, exc |-> outcome.exc, result |-> PyNone, error |-> PyNone,
     shown |-> PyNone, appended |-> 0]
  ELSE
    LET category == SafeHandler(outcome.exc)
        error_msg == <<category, ": ">> \o outcome.exc.msg
        joint == IF category = "Invalid input" THEN " for " ELSE " in "
    IN [st |-> LogGenerationAttempt(st, operation_name, FALSE, duration,
                                    PyStr(error_msg), timestamp),
        escaped |-> FALSE, exc |-> NoExc, result |-> PyNone, error |-> PyNone,
        shown |-> PyStr(<<category, joint, operation_name, ": ">> \o outcome.exc.msg),
        appended |-> 1]

(***************************************************************************)
(* utils/performance_monitor.py and app_improved.py: make_api_call         *)
(***************************************************************************)
AttributeError(key) ==
  Exc("AttributeError", <<"st.session_state has no attribute \"", key, "\"">>)

\* PerformanceMonitor.__init__, run once, when the module is first imported
MonitorInit(st) == SetDefaults(st, MonitorKeys)

\* The finally block of monitor_operation: the record is appended, or the
\* lookup of the missing list raises.
MonitorOperation(st, operation_name, duration, memory_change, timestamp) ==
  IF "performance_data" \in st.keys
  THEN [st |-> [st EXCEPT !.performance_data =
                   Append(@, [operation |-> operation_name, duration |-> duration,
                              memory_change |-> memory_change, timestamp |-> timestamp])],
        exc |-> NoExc]
  ELSE [st |-> st, exc |-> AttributeError("performance_data")]

\* PerformanceMonitor.log_api_call
LogApiCall(st, service, duration, status, error, timestamp) ==
  IF "api_calls" \in st.keys
  THEN [st |-> [st EXCEPT !.api_calls =
                   Append(@, [service |-> service, duration |-> duration, status |-> status,
                              error |-> error, timestamp |-> timestamp])],
        exc |-> NoExc, appended |-> 1]
  ELSE [st |-> st, exc |-> AttributeError("api_calls"), appended |-> 0]

\* Mutant of MakeApiCallFailed: the error text is not handed to log_api_call.
MakeApiCallFailedM(st, service_name, e, duration, timestamp) ==
  LET logged == LogApiCall(st, service_name, duration, "error", PyNone, timestamp) IN
  IF logged.exc # NoExc
  THEN [st |-> logged.st, escaped |-> TRUE, exc |-> logged.exc, result |-> PyNone,
        error |-> PyNone, shown |-> PyNone, appended |-> logged.appended]
  ELSE [st |-> logged.st, escaped |-> FALSE, exc |-> NoExc, result |-> PyNone,
        error |-> PyStr(e.msg), shown |-> PyNone, appended |-> logged.appended]

\* The except clause of make_api_call, entered with exception e
MakeApiCallFailed(st, service_name, e, duration, timestamp) ==
  LET logged == LogApiCall(st, service_name, duration, "error", PyStr(e.msg), timestamp) IN
  IF logged.exc # NoExc
  THEN [st |-> logged.st, escaped |-> TRUE, exc |-> logged.exc, result |-> PyNone,
        error |-> PyNone, shown |-> PyNone, appended |-> logged.appended]
  ELSE [st |-> logged.st, escaped |-> FALSE, exc |-> NoExc, result |-> PyNone,
        error |-> PyStr(e.msg), shown |-> PyNone, appended |-> logged.appended]

\* APIManager.make_api_call(service_name, api_function, ...)
MakeApiCall(st, service_name, outcome, duration, memory_change, timestamp) ==
  LET monitored == MonitorOperation(st, <<"API_", service_name>>, duration,
                                    memory_change, timestamp)
  IN
  IF monitored.exc # NoExc THEN
    \* raised in the finally block, it replaces whatever the function did
    MakeApiCallFailed(monitored.st, service_name, monitored.exc, duration, timestamp)
  ELSE IF outcome.kind = "raise" THEN
    IF IsSubclass(outcome.exc.cls, "Exception")
    THEN MakeApiCallFailed(monitored.st, service_name, outcome.exc, duration, timestamp)
    ELSE [st |-> monitored.st, escaped |-> TRUE, exc |-> outcome.exc, result |-> PyNone,
          error |-> PyNone, shown |-> PyNone, appended |-> 0]
  ELSE
    LET logged == LogApiCall(monitored.st, service_name, duration, "success", PyNone, timestamp) IN
    IF logged.exc # NoExc
    THEN MakeApiCallFailed(logged.st, service_name, logged.exc, duration, timestamp)
    ELSE [st |-> logged.st, escaped |-> FALSE, exc |-> NoExc, result |-> outcome.value,
          error |-> PyNone, shown |-> PyNone, appended |-> logged.appended]

(***************************************************************************)
(* What the pages do with the outcome of an orchestrated call              *)
(***************************************************************************)
\* v[key] for a string key
GetItem(v, key) ==
  CASE v.t = "dict" /\ key \in DOMAIN v.d -> [ok |-> TRUE, item |-> v.d[key], cls |-> ""]
    [] v.t = "dict" -> [ok |-> FALSE, item |-> PyNone, cls |-> "KeyError"]
    [] OTHER -> [ok |-> FALSE, item |-> PyNone, cls |-> "TypeError"]

PageDone(st, shown) == [st |-> st, exc |-> NoExc, shown |-> shown]
PageRaised(st, cls, msg) == [st |-> st, exc |-> Exc(cls, msg), shown |-> PyNone]

\* app_cleaned.py, HD Generation tab, after safe_api_call returned result
PageGenerateCleaned(st, result, shown) ==
  IF ~Truthy(result) THEN PageDone(st, shown)
  ELSE IF ~CanContain(result) THEN
    PageRaised(st, "TypeError", <<"argument of type is not iterable">>)
  ELSE IF Contains(result, "result_urls") THEN
    IF ~GetItem(result, "result_urls").ok
    THEN PageRaised(st, GetItem(result, "result_urls").cls, <<"result_urls">>)
    ELSE PageDone([st EXCEPT !.generated_images = GetItem(result, "result_urls").item], shown)
  ELSE IF Contains(result, "result_url") THEN
    IF ~GetItem(result, "result_url").ok
    THEN PageRaised(st, GetItem(result, "result_url").cls, <<"result_url">>)
    ELSE PageDone([st EXCEPT !.generated_images =
                                 PyList(<<GetItem(result, "result_url").item>>)], shown)
  ELSE PageDone(st, shown)

\* app_cleaned.py, Lifestyle Shot and Generative Fill tabs, after
\* safe_api_call returned result: only "result_urls" is looked for
PageVariationsCleaned(st, result, shown) ==
  IF ~Truthy(result) THEN PageDone(st, shown)
  ELSE IF ~CanContain(result) THEN
    PageRaised(st, "TypeError", <<"argument of type is not iterable">>)
  ELSE IF Contains(result, "result_urls") THEN
    IF ~GetItem(result, "result_urls").ok
    THEN PageRaised(st, GetItem(result, "result_urls").cls, <<"result_urls">>)
    ELSE PageDone([st EXCEPT !.generated_images = GetItem(result, "result_urls").item], shown)
  ELSE PageDone(st, shown)

\* app_cleaned.py, Erase Elements tab and the Add Shadow and Create Packshot
\* buttons, after safe_api_call returned result
PageEditCleaned(st, result, shown) ==
  IF ~Truthy(result) THEN PageDone(st, shown)
  ELSE IF ~CanContain(result) THEN
    PageRaised(st, "TypeError", <<"argument of type is not iterable">>)
  ELSE IF Contains(result, "result_url") THEN
    IF ~GetItem(result, "result_url").ok
    THEN PageRaised(st, GetItem(result, "result_url").cls, <<"result_url">>)
    ELSE PageDone([st EXCEPT !.edited_image = GetItem(result, "result_url").item], shown)
  ELSE PageDone(st, shown)

\* app_cleaned.py, Enhance Prompt button, after safe_api_call returned result
PageEnhanceCleaned(st, result, shown) ==
  IF Truthy(result) THEN PageDone([st EXCEPT !.enhanced_prompt = result], shown)
  ELSE PageDone(st, shown)

PageCleaned(page, st, result, shown) ==
  IF page = "edit" THEN PageEditCleaned(st, result, shown)
  ELSE IF page = "enhance" THEN PageEnhanceCleaned(st, result, shown)
  ELSE IF page = "variations" THEN PageVariationsCleaned(st, result, shown)
  ELSE PageGenerateCleaned(st, result, shown)

\* f"{error}"
Format(v) == IF v.t = "str" THEN v.s ELSE <<"None">>

\* Mutant of PageGenerateImproved: the result is stored without a look at
\* result and error.
PageGenerateImprovedM(st, result, error, final_prompt, width, height, num_inference_steps, guidance_scale, timestamp) ==
  PageDone([st EXCEPT
              !.generated_images =
                 PyList(Append(@.l, PyDict([image |-> result,
                                           prompt |-> PyStr(final_prompt),
                                           timestamp |-> timestamp,
                                           settings |-> [width |-> width, height |-> height,
                                                         steps |-> num_inference_steps,
                                                         guidance |-> guidance_scale]]))),
              !.processing_history =
                 Append(@, [operation |-> "HD Image Generation",
                            timestamp |-> timestamp, status |-> "Success"])],
           IF Truthy(result) /\ ~Truthy(error) THEN PyNone
           ELSE PyStr(<<"Generation failed: ">> \o Format(error)))

\* app_improved.py, hd_image_generation_page, after make_api_call returned
\* (result, error)
PageGenerateImproved(st, result, error, final_prompt, width, height, num_inference_steps, guidance_scale, timestamp) ==
  IF Truthy(result) /\ ~Truthy(error) THEN
    PageDone([st EXCEPT
                !.generated_images =
                   PyList(Append(@.l, PyDict([image |-> result,
                                             prompt |-> PyStr(final_prompt),
                                             timestamp |-> timestamp,
                                             settings |-> [width |-> width, height |-> height,
                                                           steps |-> num_inference_steps,
                                                           guidance |-> guidance_scale]]))),
                !.processing_history =
                   Append(@, [operation |-> "HD Image Generation",
                              timestamp |-> timestamp, status |-> "Success"])],
             PyNone)
  ELSE
    PageDone([st EXCEPT
                !.processing_history =
                   Append(@, [operation |-> "HD Image Generation",
                              timestamp |-> timestamp, status |-> "Failed"])],
             PyStr(<<"Generation failed: ">> \o Format(error)))

\* app_improved.py, main: the handler of an exception that left the page
MainImprovedFailed(st, e) ==
  IF IsSubclass(e.cls, "Exception")
  THEN PageDone(st, PyStr(<<"An unexpected error occurred: ">> \o e.msg))
  ELSE PageRaised(st, e.cls, e.msg)

\* app_improved.py, hd_image_generation_page, Enhance Prompt button, after
\* make_api_call returned (result, error)
PageEnhanceImproved(st, result, error, prompt) ==
  IF Truthy(result) /\ ~Truthy(error) THEN
    IF result.t # "dict"
    THEN MainImprovedFailed(st, Exc("AttributeError", <<"object has no attribute 'get'">>))
    ELSE PageDone([st EXCEPT
                     !.enhanced_prompt = IF "result" \in DOMAIN result.d THEN result.d.result
                                         ELSE PyStr(prompt),
                     !.keys = @ \cup {"enhanced_prompt"}],
                  PyNone)
  ELSE PageDone(st, PyStr(<<"Enhancement failed: ">> \o Format(error)))


\* app_improved.py: validate_image
ValidateImage(image_file) ==
  IF image_file = PyNone THEN
    Return(PyTuple(<<PyBool(FALSE), PyStr(<<"No image file provided">>)>>), << >>, << >>)
  ELSE IF image_file.t # "file" \/ ~image_file.has_size THEN
    Raise("AttributeError", <<"object has no attribute 'size'">>, << >>, << >>)
  ELSE IF image_file.size > MaxUploadBytes THEN
    Return(PyTuple(<<PyBool(FALSE), PyStr(<<"Image file too large (max 10MB)">>)>>), << >>, << >>)
  ELSE IF ~image_file.has_type THEN
    Raise("AttributeError", <<"object has no attribute 'type'">>, << >>, << >>)
  ELSE IF image_file.type \notin ValidTypes THEN
    Return(PyTuple(<<PyBool(FALSE), PyStr(InvalidTypeText)>>), << >>, << >>)
  ELSE Return(PyTuple(<<PyBool(TRUE), PyStr(<<"Valid image">>)>>), << >>, << >>)

(***************************************************************************)
(* The two file validators on one file                                     *)
(***************************************************************************)
Files ==
  LET FileSizes == {0, 1, MaxUploadBytes - 1, MaxUploadBytes, MaxUploadBytes + 1,
                    2 * MaxUploadBytes}
      FileTypes == ValidTypes \cup {"image/gif", "application/pdf", "IMAGE/PNG", ""}
  IN {PyNone, PyStr(<< >>)}
     \cup {UploadedFile(TRUE, n, TRUE, ty) : n \in FileSizes, ty \in FileTypes}
     \cup {UploadedFile(FALSE, 0, TRUE, ty) : ty \in FileTypes}
     \cup {UploadedFile(TRUE, n, FALSE, "") : n \in FileSizes}
     \cup {UploadedFile(FALSE, 0, FALSE, "")}

VfIdle ==
  /\ vf_service = NoOutcome
  /\ vf_page = NoOutcome

\* service.validate_image_file(vf_file)
VfService ==
  /\ vf_service = NoOutcome
  /\ vf_service' = ValidateImageFile(vf_file)
  /\ UNCHANGED <<vf_file, vf_page>>

\* validate_image(vf_file)
VfPage ==
  /\ vf_page = NoOutcome
  /\ vf_page' = ValidateImage(vf_file)
  /\ UNCHANGED <<vf_file, vf_service>>

(***************************************************************************)
(* The wrapped functions of the orchestrated calls                         *)
(***************************************************************************)
ValidArgs ==
  [prompt |-> <<" ", "a", " ">>, width |-> 512, height |-> 512,
   num_inference_steps |-> 20, guidance_scale |-> 75]
OrchArgs ==
  {ValidArgs, [ValidArgs EXCEPT !.width = 300], [ValidArgs EXCEPT !.height = 1000],
   [ValidArgs EXCEPT !.prompt = <<" ">>]}

OrchNet ==
  { NetResponse(200, <<"ok">>, BodyImages(<<PyStr(B64Encode(<<137, 80>>))>>)),
    NetResponse(200, <<"ok">>, PyDict(EmptyDict)),
    NetResponse(200, <<"ok">>, BodyImages(<< >>)),
    NetResponse(404, <<"error text">>, NotJson),
    NetTimeout,
    NetConnectionError }

Methods == {<<"P", "O", "S", "T">>, <<"G", "e", "t">>, <<"p", "u", "t">>}

RequestNet ==
  { NetResponse(200, <<"ok">>, PyDict([result_url |-> PyStr(<<"https://x/1.png">>)])),
    NetResponse(404, <<"error text">>, NotJson),
    NetTimeout }

EnvKey == PyStr(<<ApiKey>>)

\* An api_function together with what happens when it is called: how it
\* ends (outcome), whether it invokes make_request (invoked) and with which
\* verb (method), and what the network answers (net); args are the arguments
\* of generate_hd_image when that is the function.
Fn(name, outcome, invoked, method, net) ==
  [name |-> name, outcome |-> outcome, invoked |-> invoked, method |-> method, net |-> net,
   args |-> DefaultArgs, page |-> "generate"]

\* generate_hd_image with arguments a, the network answering net
HdFunction(a, net) ==
  IF ValidateHd(a) # NoExc
  THEN [Fn("hd_image_generation", GenerateHdImage(a, net), 0, << >>, NoNet) EXCEPT !.args = a]
  ELSE [Fn("hd_image_generation", GenerateHdImage(a, net), 1, <<"P", "O", "S", "T">>, net)
          EXCEPT !.args = a]

\* generate_hd_image called where no service object could be constructed:
\* the import of hd_image_generation_improved that the call waits for raises
\* what BaseAPIService.__init__ raises
HdFunctionNoKey(a, key) ==
  [Fn("hd_image_generation",
      Raise(ServiceInit(key).cls, ServiceInit(key).msg, << >>, << >>), 0, << >>, NoNet)
   EXCEPT !.args = a]

\* generate_hd_image(a) as app_improved calls it, with the ways it may end
HdFunctions(a, nets) ==
  IF Truthy(env) THEN {HdFunction(a, net) : net \in nets} ELSE {HdFunctionNoKey(a, env)}

\* a service function that returns what make_request returns, called under
\* the operation name `name` on page `page`
RequestFunction(name, page, m, net) ==
  [Fn(name, MakeRequest(HdEndpoint, m, PyDict(EmptyDict), PyNone, DefaultTimeout, net),
      1, m, IF Upper(m) \in {<<"P", "O", "S", "T">>, <<"G", "E", "T">>} THEN net ELSE NoNet)
   EXCEPT !.page = page]

\* generate_hd_image as the Generate Images button of app_cleaned calls it:
\* (final_prompt, api_key, model_version=..., num_results=..., ...).  The
\* function takes prompt, width, height, num_inference_steps and
\* guidance_scale, so the call raises TypeError on its first keyword and the
\* body does not run.
HdFunctionCleaned(final_prompt, api_key) ==
  [Fn("HD Image Generation",
      Raise("TypeError",
            <<"generate_hd_image() got an unexpected keyword argument '", "model_version", "'">>,
            << >>, << >>),
      0, << >>, NoNet)
   EXCEPT !.args = [prompt |-> final_prompt, api_key |-> api_key,
                    kwargs |-> <<"model_version", "num_results", "aspect_ratio",
                                 "negative_prompt", "seed", "steps_num",
                                 "text_guidance_scale", "enhance_image">>]]

\* how a service function of the package may end that is not in the source
\* tree: it returns None, a dictionary or a text, or raises an exception
\* whose message is empty or a ValueError
OtherOutcomes ==
  { Return(PyNone, << >>, << >>),
    Return(PyDict([result_url |-> PyStr(<<"https://x/1.png">>)]), << >>, << >>),
    Return(PyDict([result_urls |-> PyList(<<PyStr(<<"https://x/1.png">>),
                                           PyStr(<<"https://x/2.png">>)>>)]), << >>, << >>),
    Return(PyStr(<<"r", "e", "s", "u", "l", "t", "_", "u", "r", "l", "s">>), << >>, << >>),
    Raise("Exception", << >>, << >>, << >>),
    Raise("ValueError", <<"bad input">>, << >>, << >>) }

\* the operation names of the buttons of app_cleaned whose result goes to
\* edited_image: Auto-Erase Elements (erase_foreground), Add Shadow
\* (add_shadow) and Create Packshot (create_packshot)
EditOperations == {"Element Erasing", "Shadow Addition", "Packshot Creation"}

\* the function behind the button that logs under `name`
EditFunctions(name) ==
  {[Fn(name, o, 0, << >>, NoNet) EXCEPT !.page = "edit"] :
     o \in OtherOutcomes \ {Return(PyNone, << >>, << >>)}}
  \cup {RequestFunction(name, "edit", m, net) : m \in Methods, net \in RequestNet}

\* the operation names of the buttons of app_cleaned whose result_urls go
\* to generated_images: Generate Lifestyle Shot (lifestyle_shot_by_text) and
\* Fill Area (generative_fill, called when something was drawn on the canvas)
VariationOperations == {"Lifestyle Shot Generation", "Generative Fill"}

\* the function behind the button that logs under `name`
VariationFunctions(name) ==
  {[Fn(name, o, 0, << >>, NoNet) EXCEPT !.page = "variations"] :
     o \in OtherOutcomes \ {Return(PyNone, << >>, << >>)}}

\* the text enhance_prompt makes of prompt p
EnhancedText(p) == p \o <<"!">>

\* how enhance_prompt(prompt) may end in app_improved, where the page reads
\* the text with result.get('result', prompt)
EnhanceOutcomesImproved(p) ==
  { Return(PyDict([result |-> PyStr(EnhancedText(p))]), << >>, << >>),
    Return(PyDict([status |-> PyStr(<<"ok">>)]), << >>, << >>),
    Return(PyNone, << >>, << >>),
    Raise("Exception", << >>, << >>, << >>) }

\* how enhance_prompt(api_key, prompt) may end in app_cleaned, where the
\* page stores the result as the enhanced prompt
EnhanceOutcomesCleaned(p) ==
  { Return(PyStr(EnhancedText(p)), << >>, << >>),
    Return(PyNone, << >>, << >>),
    Raise("Exception", << >>, << >>, << >>) }

EnhanceFunction(name, p, o) ==
  [Fn(name, o, 0, << >>, NoNet) EXCEPT !.args = [DefaultArgs EXCEPT !.prompt = p],
                                    !.page = "enhance"]

\* app_cleaned.py, a script run with `text` in the prompt field, down to the
\* buttons: a changed prompt is stored and clears the enhanced prompt
ScriptCleaned(st, text) ==
  IF text # st.original_prompt
  THEN [st EXCEPT !.prompt_widget = text, !.original_prompt = text, !.enhanced_prompt = PyNone]
  ELSE [st EXCEPT !.prompt_widget = text]

\* final_prompt of app_cleaned
FinalPromptCleaned(st) ==
  IF Truthy(st.enhanced_prompt) THEN st.enhanced_prompt.s ELSE st.prompt_widget

\* app_improved.py, hd_image_generation_page with `text` in the prompt field
ScriptImproved(st, text) == [st EXCEPT !.prompt_widget = text]

\* final_prompt = st.session_state.get('enhanced_prompt', prompt)
FinalPromptImproved(st) ==
  IF "enhanced_prompt" \in st.keys THEN st.enhanced_prompt.s ELSE st.prompt_widget

(***************************************************************************)
(* The application: script runs and orchestrated calls                     *)
(***************************************************************************)
NoCall ==
  [session |-> 0, operation |-> "", fn |-> NoOutcome, invoked |-> 0, method |-> << >>,
   net |-> NoNet, args |-> DefaultArgs, page |-> "", before |-> FreshSession,
   escaped |-> FALSE, exc |-> NoExc, result |-> PyNone, error |-> PyNone, shown |-> PyNone,
   page_exc |-> NoExc, stopped |-> FALSE]

\* no call of the session is under way
NoPending == [on |-> FALSE, fs |-> {}, start_time |-> 0]

Ready(s) == boot[s] = "ready"
EnvValues == {PyNone, PyStr(<< >>), EnvKey}
\* the calls made so far, those under way included
TotalCalls == calls[1] + calls[2] + Cardinality({s \in Sessions : pending[s].on})

Init ==
  /\ app \in {"cleaned", "improved"}
  /\ env \in EnvValues
  /\ eager \in (IF Truthy(env) THEN {TRUE} ELSE BOOLEAN)
  /\ boot = [s \in Sessions |-> "none"]
  /\ monitor = 0
  /\ ss = [s \in Sessions |-> FreshSession]
  /\ now = 0
  /\ pending = [s \in Sessions |-> NoPending]
  /\ calls = [s \in Sessions |-> 0]
  /\ appends = [s \in Sessions |-> 0]
  /\ last = NoCall
  /\ hd_args = DefaultArgs
  /\ HdIdle
  /\ rq_in = DefaultRequest
  /\ RqIdle
  /\ vf_file = PyNone
  /\ VfIdle

\* app_cleaned.py, first script run of a session: the imports, then main():
\* initialize_session_state() and the API key validation of the sidebar
RunCleaned(s) ==
  /\ app = "cleaned"
  /\ boot[s] = "none"
  /\ IF ImportServices(env, eager) # NoExc
     THEN /\ boot' = [boot EXCEPT ![s] = "import failed"]
          /\ ss' = ss
     ELSE /\ ss' = [ss EXCEPT ![s] = [SetDefaults(@, CleanedKeys) EXCEPT !.api_key = env]]
          /\ boot' = [boot EXCEPT ![s] = IF ~Truthy(env) THEN "stopped" ELSE "ready"]
  /\ UNCHANGED <<app, env, eager, monitor, now, pending, calls, appends, last, hdVars, rqVars, vfVars>>

\* app_improved.py, first script run of a session: the import of
\* utils.performance_monitor constructs PerformanceMonitor() if this is the
\* first import in the process; then initialize_session_state()
RunImproved(s) ==
  /\ app = "improved"
  /\ boot[s] = "none"
  /\ IF ImportServices(env, eager) # NoExc
     THEN /\ boot' = [boot EXCEPT ![s] = "import failed"]
          /\ UNCHANGED <<ss, monitor>>
     ELSE /\ ss' = [ss EXCEPT ![s] =
                     [SetDefaults(IF monitor = 0 THEN MonitorInit(@) ELSE @, ImprovedKeys)
                        EXCEPT !.api_key = env]]
          /\ monitor' = IF monitor = 0 THEN s ELSE monitor
          /\ boot' = [boot EXCEPT ![s] = "ready"]
  /\ UNCHANGED <<app, env, eager, now, pending, calls, appends, last, hdVars, rqVars, vfVars>>

\* what is seen of the call f of session s: r from the orchestrator, pg from
\* the page that made the call; stopped when the script was stopped at its
\* first display call after the function ended
Observed(s, st, f, r, pg, stopped) ==
  [session |-> s, operation |-> f.name, fn |-> f.outcome, invoked |-> f.invoked,
   method |-> f.method, net |-> f.net, args |-> f.args, page |-> f.page, before |-> st,
   escaped |-> r.escaped, exc |-> r.exc, result |-> r.result, error |-> r.error,
   shown |-> pg.shown, page_exc |-> pg.exc, stopped |-> stopped]

\* A button of session s is pressed: the script runs down to the call, which
\* leaves the session as st, the orchestrator reads start_time
\* (app_cleaned.py line 176, app_improved.py line 57) and calls the
\* function.  The thread of the session then waits for it while the clock
\* and the other sessions go on; fs are the ways the function may go from
\* here, one for each thing the network may do.
Press(s, st, fs) ==
  /\ Ready(s)
  /\ ~pending[s].on
  /\ ss' = [ss EXCEPT ![s] = st]
  /\ pending' = [pending EXCEPT ![s] = [on |-> TRUE, fs |-> fs, start_time |-> now]]
  /\ UNCHANGED <<app, env, eager, boot, monitor, now, calls, appends, last, hdVars, rqVars, vfVars>>

\* a second passes while a call is under way
Tick ==
  /\ \E s \in Sessions : pending[s].on
  /\ now' = now + 1
  /\ UNCHANGED <<app, env, eager, boot, monitor, ss, pending, calls, appends, last,
                 hdVars, rqVars, vfVars>>

\* safe_api_call lines 180-200 and the page after it, in session s whose
\* call has ended as f: the clock is read again, the attempt is logged, and the
\* page handles the result.  With a rerun of the session requested, the
\* script is stopped at its next display call: at st.error of
\* safe_api_call, or at st.success of the page, which the HD Generation tab
\* calls before it stores the images and the other pages after they stored
\* theirs.
SafeStep(s, f, rerun) ==
  LET st == ss[s]
      r == SafeApiCall(st, f.name, f.outcome, now - pending[s].start_time, now)
      pg == IF r.escaped THEN PageRaised(r.st, r.exc.cls, r.exc.msg)
            ELSE IF ~rerun THEN PageCleaned(f.page, r.st, r.result, r.shown)
            ELSE IF f.page = "generate" THEN PageDone(r.st, PyNone)
            ELSE PageCleaned(f.page, r.st, r.result, PyNone)
  IN
  /\ ss' = [ss EXCEPT ![s] = pg.st]
  /\ pending' = [pending EXCEPT ![s] = NoPending]
  /\ calls' = [calls EXCEPT ![s] = @ + 1]
  /\ appends' = [appends EXCEPT ![s] = @ + r.appended]
  /\ last' = Observed(s, st, f, r, pg, rerun)
  /\ UNCHANGED <<app, env, eager, boot, monitor, now, hdVars, rqVars, vfVars>>

\* make_api_call lines 58-76 and the page after it, in session s whose call
\* has ended as f.  With a rerun of the session requested, the script is
\* stopped at its next display call: at st.success, which follows the
\* writes of the page, or at st.error, which precedes the write of
\* processing_history (and which is all the handler of main does).
ManagerStep(s, f, mem, rerun) ==
  LET st == ss[s]
      r == MakeApiCall(st, f.name, f.outcome, now - pending[s].start_time, mem, now)
      full == IF r.escaped THEN MainImprovedFailed(r.st, r.exc)
              ELSE IF f.page = "enhance"
              THEN PageEnhanceImproved(r.st, r.result, r.error, f.args.prompt)
              ELSE PageGenerateImproved(r.st, r.result, r.error, f.args.prompt, f.args.width,
                                        f.args.height, f.args.num_inference_steps,
                                        f.args.guidance_scale, now)
      pg == IF ~rerun \/ full.exc # NoExc THEN full
            ELSE IF full.shown = PyNone THEN full
            ELSE PageDone(r.st, PyNone)
  IN
  /\ ss' = [ss EXCEPT ![s] = pg.st]
  /\ pending' = [pending EXCEPT ![s] = NoPending]
  /\ calls' = [calls EXCEPT ![s] = @ + 1]
  /\ appends' = [appends EXCEPT ![s] = @ + r.appended]
  /\ last' = Observed(s, st, f, r, pg, rerun)
  /\ UNCHANGED <<app, env, eager, boot, monitor, now, hdVars, rqVars, vfVars>>

\* the prompts typed in the runs followed call by call
TypedTexts == {a.prompt : a \in OrchArgs}

\* The buttons of app_cleaned in a session left as st0 by its last script
\* run: for each press, the session as the script run of the press leaves it
\* at the call (with the text the user typed into the prompt field before,
\* lines 246-256; the Enhance and Generate buttons are disabled while the
\* prompt is empty) and the ways the function called may end.
CallsCleaned(st0) ==
  LET typed(text) == ScriptCleaned(st0, text) IN
  {[st |-> typed(text),
    fs |-> {HdFunctionCleaned(FinalPromptCleaned(typed(text)), typed(text).api_key)}] :
     text \in TypedTexts}
  \cup {[st |-> typed(text),
         fs |-> {EnhanceFunction("Prompt Enhancement", text, o) :
                   o \in EnhanceOutcomesCleaned(text)}] : text \in TypedTexts}
  \cup {[st |-> st0, fs |-> {f \in EditFunctions(name) : f.method = m}] :
          name \in EditOperations, m \in Methods \cup {<< >>}}
  \cup {[st |-> st0, fs |-> VariationFunctions(name)] : name \in VariationOperations}

\* The buttons of the HD Image Generation page of app_improved: Generate
\* Image (with an empty prompt the page shows 'Please enter a prompt' and
\* returns, lines 279-281) and Enhance Prompt
CallsImproved(st0) ==
  LET typed(text) == ScriptImproved(st0, text) IN
  {[st |-> typed(a.prompt),
    fs |-> HdFunctions([a EXCEPT !.prompt = FinalPromptImproved(typed(a.prompt))], OrchNet)] :
     a \in OrchArgs}
  \cup {[st |-> typed(text),
         fs |-> {EnhanceFunction("prompt_enhancement", text, o) :
                   o \in EnhanceOutcomesImproved(text)}] : text \in TypedTexts}

\* a user action of session s that goes through safe_api_call
CallSafe(s) ==
  /\ app = "cleaned"
  /\ TotalCalls < MaxCalls
  /\ \E c \in CallsCleaned(ss[s]) : Press(s, c.st, c.fs)

\* the call of session s ends and safe_api_call goes on
ReturnSafe(s) ==
  /\ app = "cleaned"
  /\ pending[s].on
  /\ \E f \in pending[s].fs, rerun \in BOOLEAN : SafeStep(s, f, rerun)

\* a user action of session s that goes through api_manager.make_api_call
CallManager(s) ==
  /\ app = "improved"
  /\ TotalCalls < MaxCalls
  /\ \E c \in CallsImproved(ss[s]) : Press(s, c.st, c.fs)

\* the call of session s ends and make_api_call goes on
ReturnManager(s) ==
  /\ app = "improved"
  /\ pending[s].on
  /\ \E f \in pending[s].fs, rerun \in BOOLEAN :
       ManagerStep(s, f, 1, rerun)    \* psutil finds 1 MB more in use

Next ==
  \/ \E s \in Sessions : RunCleaned(s)
  \/ \E s \in Sessions : RunImproved(s)
  \/ \E s \in Sessions : CallSafe(s)
  \/ \E s \in Sessions : ReturnSafe(s)
  \/ \E s \in Sessions : CallManager(s)
  \/ \E s \in Sessions : ReturnManager(s)
  \/ now < MaxTime /\ Tick

Spec == Init /\ [][Next]_vars

(***************************************************************************)
(* generate_hd_image on its own, over all argument sets                    *)
(***************************************************************************)
InitHD ==
  /\ app = "improved"
  /\ env = EnvKey
  /\ eager = TRUE
  /\ boot = [s \in Sessions |-> "none"]
  /\ monitor = 0
  /\ ss = [s \in Sessions |-> FreshSession]
  /\ now = 0
  /\ pending = [s \in Sessions |-> NoPending]
  /\ calls = [s \in Sessions |-> 0]
  /\ appends = [s \in Sessions |-> 0]
  /\ last = NoCall
  /\ hd_args \in HdArgSets
  /\ HdIdle
  /\ rq_in = DefaultRequest
  /\ RqIdle
  /\ vf_file = PyNone
  /\ VfIdle

NextHD ==
  \/ HdBegin /\ UNCHANGED <<orchVars, rqVars, vfVars>>
  \/ HdValidate /\ UNCHANGED <<orchVars, rqVars, vfVars>>
  \/ HdSend /\ UNCHANGED <<orchVars, rqVars, vfVars>>
  \/ HdReceive /\ UNCHANGED <<orchVars, rqVars, vfVars>>
  \/ HdParse /\ UNCHANGED <<orchVars, rqVars, vfVars>>
  \/ HdOther /\ UNCHANGED <<orchVars, rqVars, vfVars>>

SpecHD == InitHD /\ [][NextHD]_vars

(***************************************************************************)
(* make_request on its own                                                 *)
(***************************************************************************)
InitRequest ==
  /\ app = "improved"
  /\ env = EnvKey
  /\ eager = TRUE
  /\ boot = [s \in Sessions |-> "none"]
  /\ monitor = 0
  /\ ss = [s \in Sessions |-> FreshSession]
  /\ now = 0
  /\ pending = [s \in Sessions |-> NoPending]
  /\ calls = [s \in Sessions |-> 0]
  /\ appends = [s \in Sessions |-> 0]
  /\ last = NoCall
  /\ hd_args = DefaultArgs
  /\ HdIdle
  /\ rq_in \in RequestArgSets
  /\ RqIdle
  /\ vf_file = PyNone
  /\ VfIdle

NextRequest ==
  \/ RqInvoke /\ UNCHANGED <<orchVars, hdVars, vfVars>>
  \/ RqAnswer /\ UNCHANGED <<orchVars, hdVars, vfVars>>

SpecRequest == InitRequest /\ [][NextRequest]_vars

(***************************************************************************)
(* The prompt field, Enhance Prompt and Generate                           *)
(***************************************************************************)
FieldTexts == {<< >>, <<"a">>, <<"a", "a">>}    \* texts typed into the prompt field

\* the user of session s changes the text of the prompt field: one script
\* run, no button pressed
EditPrompt(s) ==
  /\ Ready(s)
  /\ ~pending[s].on
  /\ \E text \in FieldTexts \ {ss[s].prompt_widget} :
       ss' = [ss EXCEPT ![s] = IF app = "cleaned" THEN ScriptCleaned(@, text)
                               ELSE ScriptImproved(@, text)]
  /\ UNCHANGED <<app, env, eager, boot, monitor, now, pending, calls, appends, last, hdVars, rqVars, vfVars>>

\* app_cleaned.py: Enhance Prompt pressed (the button is disabled while the
\* prompt is empty)
EnhanceCleaned(s) ==
  /\ app = "cleaned"
  /\ TotalCalls < MaxCalls
  /\ LET st == ScriptCleaned(ss[s], ss[s].prompt_widget) IN
     /\ st.prompt_widget # << >>
     /\ Press(s, st, {EnhanceFunction("Prompt Enhancement", st.prompt_widget, o) :
                         o \in EnhanceOutcomesCleaned(st.prompt_widget)})

\* app_cleaned.py: Generate Images pressed (the button is disabled while
\* final_prompt is empty)
GenerateCleaned(s) ==
  /\ app = "cleaned"
  /\ TotalCalls < MaxCalls
  /\ LET st == ScriptCleaned(ss[s], ss[s].prompt_widget) IN
     /\ FinalPromptCleaned(st) # << >>
     /\ Press(s, st, {HdFunctionCleaned(FinalPromptCleaned(st), st.api_key)})

\* app_improved.py: Enhance Prompt pressed; with an empty prompt nothing is
\* done
EnhanceImproved(s) ==
  /\ app = "improved"
  /\ TotalCalls < MaxCalls
  /\ LET st == ScriptImproved(ss[s], ss[s].prompt_widget) IN
     /\ st.prompt_widget # << >>
     /\ Press(s, st, {EnhanceFunction("prompt_enhancement", st.prompt_widget, o) :
                         o \in EnhanceOutcomesImproved(st.prompt_widget)})

\* app_improved.py: Generate Image pressed; with an empty prompt the page
\* shows an error and returns
GenerateImproved(s) ==
  /\ app = "improved"
  /\ TotalCalls < MaxCalls
  /\ LET st == ScriptImproved(ss[s], ss[s].prompt_widget) IN
     /\ st.prompt_widget # << >>
     /\ Press(s, st, HdFunctions([ValidArgs EXCEPT !.prompt = FinalPromptImproved(st)],
                                  {NetResponse(200, <<"ok">>,
                                               BodyImages(<<PyStr(B64Encode(<<137, 80>>))>>)),
                                   NetTimeout}))

NextPrompt ==
  \/ \E s \in Sessions : RunCleaned(s)
  \/ \E s \in Sessions : RunImproved(s)
  \/ \E s \in Sessions : EditPrompt(s)
  \/ \E s \in Sessions : EnhanceCleaned(s)
  \/ \E s \in Sessions : GenerateCleaned(s)
  \/ \E s \in Sessions : EnhanceImproved(s)
  \/ \E s \in Sessions : GenerateImproved(s)
  \/ \E s \in Sessions : ReturnSafe(s)
  \/ \E s \in Sessions : ReturnManager(s)
  \/ now < MaxTime /\ Tick

SpecPrompt == Init /\ [][NextPrompt]_vars

(***************************************************************************)
(* The file validators on their own                                        *)
(***************************************************************************)
InitValidate ==
  /\ app = "improved"
  /\ env = EnvKey
  /\ eager = TRUE
  /\ boot = [s \in Sessions |-> "none"]
  /\ monitor = 0
  /\ ss = [s \in Sessions |-> FreshSession]
  /\ now = 0
  /\ pending = [s \in Sessions |-> NoPending]
  /\ calls = [s \in Sessions |-> 0]
  /\ appends = [s \in Sessions |-> 0]
  /\ last = NoCall
  /\ hd_args = DefaultArgs
  /\ HdIdle
  /\ rq_in = DefaultRequest
  /\ RqIdle
  /\ vf_file \in Files
  /\ VfIdle

NextValidate ==
  \/ VfService /\ UNCHANGED <<orchVars, hdVars, rqVars>>
  \/ VfPage /\ UNCHANGED <<orchVars, hdVars, rqVars>>

SpecValidate == InitValidate /\ [][NextValidate]_vars

(***************************************************************************)
(* A long run: one session repeating a call until its logs pass the cap    *)
(***************************************************************************)
LongRun == HistoryCap + 2    \* calls in a long run

\* what the session of a long run calls, over and over: in app_cleaned the
\* Erase Elements button, whose function succeeds twice and then raises
\* ValueError in session 1 and always raises in session 2; in app_improved
\* Generate Image, answered twice with an image and then with a body
\* without one in session 1 and never answered in session 2
LongFunction(s) ==
  IF app = "cleaned" THEN
    [Fn("Element Erasing",
        IF s = 1 /\ calls[s] % 3 # 2
        THEN Return(PyDict([result_url |-> PyStr(<<"https://x/1.png">>)]), << >>, << >>)
        ELSE IF s = 1 THEN Raise("ValueError", <<"bad input">>, << >>, << >>)
        ELSE Raise("Exception", << >>, << >>, << >>),
        0, << >>, NoNet)
     EXCEPT !.page = "edit"]
  ELSE IF ~Truthy(env) THEN HdFunctionNoKey(ValidArgs, env)
  ELSE HdFunction(ValidArgs,
                  IF s = 1 /\ calls[s] % 3 # 2
                  THEN NetResponse(200, <<"ok">>, BodyImages(<<PyStr(B64Encode(<<137, 80>>))>>))
                  ELSE IF s = 1 THEN NetResponse(200, <<"ok">>, PyDict(EmptyDict))
                  ELSE NetTimeout)

\* only one session makes calls in a long run, one after the other
OnlyCaller(s) == \A t \in Sessions \ {s} : calls[t] = 0 /\ ~pending[t].on

LongCallSafe(s) ==
  /\ app = "cleaned"
  /\ OnlyCaller(s)
  /\ calls[s] < LongRun
  /\ Press(s, ss[s], {LongFunction(s)})

LongCallManager(s) ==
  /\ app = "improved"
  /\ OnlyCaller(s)
  /\ calls[s] < LongRun
  /\ Press(s, ScriptImproved(ss[s], ValidArgs.prompt), {LongFunction(s)})

\* every call of a long run takes two seconds, and no rerun is requested
\* while it is under way
NextLong ==
  \/ \E s \in Sessions : RunCleaned(s)
  \/ \E s \in Sessions : RunImproved(s)
  \/ \E s \in Sessions : LongCallSafe(s)
  \/ \E s \in Sessions : LongCallManager(s)
  \/ \E s \in Sessions : \E f \in pending[s].fs :
       /\ now = pending[s].start_time + 2
       /\ IF app = "cleaned" THEN SafeStep(s, f, FALSE) ELSE ManagerStep(s, f, 1, FALSE)
  \/ (\A s \in Sessions : pending[s].on => now < pending[s].start_time + 2) /\ Tick

SpecLong == Init /\ [][NextLong]_vars

(***************************************************************************)
(* Properties                                                              *)
(***************************************************************************)
Called == last.session # 0
Returned == Called /\ ~last.escaped

\* the event log of the most recent call's session, before and after it
LogBefore == IF app = "cleaned" THEN last.before.generation_history ELSE last.before.api_calls
LogAfter ==
  IF app = "cleaned" THEN ss[last.session].generation_history ELSE ss[last.session].api_calls
NewEntry == LogAfter[Len(LogAfter)]

\* C1: every orchestrated call (safe_api_call, make_api_call) appends
\* exactly one entry to the event log of its session, whatever the wrapped
\* function did: after n calls a session has had n entries appended.
C1_OneEntryPerCall ==
  \A s \in Sessions : appends[s] = calls[s]

\* C2: no failure propagates out of the orchestrator: safe_api_call and
\* make_api_call always return normally, also when the failure occurs while
\* the outcome is being recorded.
C2_NothingEscapes ==
  Called => ~last.escaped

\* C3: the value an orchestrator returns denotes exactly one of success and
\* failure: make_api_call returns a (result, error) pair with exactly one
\* component populated, and safe_api_call returns None exactly when the
\* wrapped function raised.
C3_SuccessXorFailure ==
  Returned =>
    IF app = "improved"
    THEN (last.result # PyNone) # (last.error # PyNone)
    ELSE (last.result = PyNone) <=> (last.fn.kind = "raise")

\* The rules of generate_hd_image on its arguments, stated on their own
Blank(p) == \A i \in 1..Len(p) : IsSpace(p[i])
GoodDim(n) == \E k \in 4..16 : n = 64 * k
RulesHold(a) ==
  /\ ~Blank(a.prompt)
  /\ GoodDim(a.width)
  /\ GoodDim(a.height)
  /\ a.num_inference_steps \in 10..50
  /\ a.guidance_scale \in 10..200

HdValidated == hd_pc \notin {"Idle", "Validating"}
HdTerminal == hd_pc \in {"ValidationFailed", "NetworkFailed", "ParseFailed", "Succeeded"}

\* C4: an argument set that breaks a rule (blank prompt, width or height
\* outside 256..1024 or no multiple of 64, steps outside 10..50, guidance
\* outside 1.0..20.0) fails with a ValueError and make_request is never
\* invoked; an argument set that meets every rule, bounds included, passes
\* validation and reaches make_request.
C4_ValidationGuardsNetwork ==
  HdValidated =>
    IF RulesHold(hd_args)
    THEN hd_pc # "ValidationFailed" /\ hd_stages[2] = "Sending"
    ELSE /\ hd_pc = "ValidationFailed"
         /\ hd_out.kind = "raise"
         /\ IsSubclass(hd_out.exc.cls, "ValueError")
         /\ hd_data = << >>
         /\ hd_out.sent = << >>

C4_Witness ==
  /\ hd_pc = "ValidationFailed"
  /\ hd_args.width = 320 /\ hd_args.height = 300
  /\ hd_args.num_inference_steps = 50 /\ hd_args.guidance_scale = 200
  /\ ~Blank(hd_args.prompt)

\* the pieces of a recorded error text
Pieces(e) == {e.s[i] : i \in 1..Len(e.s)}

\* the categories under which safe_api_call records and shows a failure
Categories == {"Network error", "Invalid input", "Unexpected error"}

\* the category an error text is recorded under: its first piece when that
\* is a category, "" when the text names none
CategoryOf(e) ==
  IF e.t = "str" /\ e.s # << >> /\ e.s[1] \in Categories THEN e.s[1] ELSE ""

\* the entry appended is one of a failure
EntryFailed == IF app = "cleaned" THEN NewEntry.success = FALSE ELSE NewEntry.status = "error"

\* C5: a response with a status other than 200 ends the orchestrated call,
\* under safe_api_call and under make_api_call, as a Network failure:
\* nothing escapes the orchestrator, one entry is appended, it is the entry
\* of a failure whose error text carries the status code, and the category
\* it is recorded under is "Network error" and no other.
C5_Non200IsNetworkFailure ==
  (Called /\ last.net.t = "response" /\ last.net.status # 200) =>
    /\ ~last.escaped
    /\ Len(LogAfter) = Len(LogBefore) + 1
    /\ EntryFailed
    /\ NewEntry.error.t = "str"
    /\ ToString(last.net.status) \in Pieces(NewEntry.error)
    /\ CategoryOf(NewEntry.error) = "Network error"

\* C6: a timeout of the transport call ends the orchestrated call, under
\* either orchestrator, as a failure of the category Timeout, a category of
\* its own that is not the one of the non-200 and the connection failures,
\* with exactly one entry appended for it.
C6_TimeoutCategory ==
  (Called /\ last.net.t = "timeout") =>
    /\ Len(LogAfter) = Len(LogBefore) + 1
    /\ EntryFailed
    /\ CategoryOf(NewEntry.error) \notin {"", "Network error"}

\* the category an orchestrator records a validation failure under:
\* safe_api_call tags a ValueError "Invalid input"; make_api_call records
\* the text of the exception alone, whatever the failure
ValidationCategory == IF app = "cleaned" THEN "Invalid input" ELSE ""

\* C7: a status-200 body without the image (no 'result', no 'images', an
\* empty list, a first image that is no string) makes generate_hd_image
\* fail, and the orchestrator records that failure in a category other than
\* the one of validation failures: an entry recorded the way invalid input
\* is recorded means no request was sent for that call.
C7_InvalidInputMeansNoRequest ==
  (Called /\ last.net.t = "response" /\ last.net.status = 200
     /\ ~last.escaped /\ last.fn.kind = "raise"
     /\ Len(LogAfter) = Len(LogBefore) + 1
     /\ CategoryOf(NewEntry.error) = ValidationCategory) =>
    last.fn.sent = << >>

\* the four ways through the stages of a call
StagePaths ==
  { <<"Validating", "ValidationFailed">>,
    <<"Validating", "Sending", "NetworkFailed">>,
    <<"Validating", "Sending", "AwaitingParse", "ParseFailed">>,
    <<"Validating", "Sending", "AwaitingParse", "Succeeded">> }

\* C8: a call of generate_hd_image goes through validate, send and parse in
\* that order and ends in one of ValidationFailed, NetworkFailed,
\* ParseFailed and Succeeded; after a failure state no stage follows and no
\* stage is entered twice; a failure state ends the call with an exception
\* and Succeeded ends it with the image.
C8_StagesInOrder ==
  /\ \E path \in StagePaths : \E n \in 0..Len(path) : hd_stages = SubSeq(path, 1, n)
  /\ hd_stages # << >> => hd_pc = hd_stages[Len(hd_stages)]
  /\ HdTerminal =>
       /\ hd_stages \in StagePaths
       /\ ~ENABLED (HdBegin \/ HdValidate \/ HdSend \/ HdReceive \/ HdParse)
  /\ hd_pc \in {"ValidationFailed", "NetworkFailed", "ParseFailed"} =>
       hd_out.kind = "raise" /\ hd_out.exc # NoExc
  /\ hd_pc = "Succeeded" => hd_out.kind = "return" /\ hd_out.value.t = "Image"
  /\ ~HdTerminal => hd_out = NoOutcome

C8_Witness ==
  /\ hd_pc = "ParseFailed"
  /\ hd_stages = <<"Validating", "Sending", "AwaitingParse", "ParseFailed">>
  /\ hd_out.kind = "raise"

\* C9 as claimed: every invocation of make_request performs exactly one
\* HTTP attempt.
C9_ExactlyOneAttempt ==
  (Called /\ last.invoked = 1) => Len(last.fn.sent) = 1

\* C9 amended: an invocation of make_request performs at most one HTTP
\* attempt, whatever the outcome and under either orchestrator: one when
\* the method is POST or GET in any case of letters, none when it is any
\* other method; a function that does not invoke make_request sends nothing.
C9_AtMostOneAttempt ==
  Called =>
    /\ Len(last.fn.sent) <= 1
    /\ last.invoked = 1 =>
         (Len(last.fn.sent) = 1
            <=> Upper(last.method) \in {<<"P", "O", "S", "T">>, <<"G", "E", "T">>})
    /\ last.invoked = 0 => last.fn.sent = << >>

C9_Witness ==
  /\ Called /\ last.invoked = 1
  /\ last.net.t = "response" /\ last.net.status = 404
  /\ last.fn.kind = "raise"
  /\ Len(last.fn.sent) = 1

\* p is s without its leading and trailing blanks
TrimOf(p, s) ==
  /\ p = << >> \/ (~IsSpace(p[1]) /\ ~IsSpace(p[Len(p)]))
  /\ \E i \in 0..Len(s) : \E j \in i..Len(s) :
       /\ p = SubSeq(s, i + 1, j)
       /\ \A k \in (1..i) \cup ((j + 1)..Len(s)) : IsSpace(s[k])

HdSent == hd_pc \in {"NetworkFailed", "AwaitingParse", "ParseFailed", "Succeeded"}

\* C10: for a valid argument set make_request is called once, with a
\* payload of exactly the five fields prompt, width, height,
\* num_inference_steps and guidance_scale, each the caller's value, the
\* prompt without its leading and trailing blanks; and a 200 response with
\* one base64 image string as result.images[0] then ends the call with the
\* image whose bytes that string encodes.
C10_PayloadForwarded ==
  /\ (HdValidated /\ RulesHold(hd_args) /\ hd_pc # "Sending") => HdSent
  /\ HdSent =>
       /\ Len(hd_data) = 1
       /\ hd_data[1].verb = "POST" /\ hd_data[1].body = "json"
       /\ hd_data[1].data.t = "dict"
       /\ LET d == hd_data[1].data.d IN
          /\ DOMAIN d = {"prompt", "width", "height", "num_inference_steps", "guidance_scale"}
          /\ TrimOf(d.prompt, hd_args.prompt)
          /\ d.width = hd_args.width
          /\ d.height = hd_args.height
          /\ d.num_inference_steps = hd_args.num_inference_steps
          /\ d.guidance_scale = hd_args.guidance_scale
  /\ (HdTerminal /\ hd_resp.kind = "return" /\ hd_resp.value \in GoodBodies) =>
       /\ hd_pc = "Succeeded"
       /\ hd_out.kind = "return"
       /\ hd_out.value.t = "Image"
       /\ hd_out.value.bytes \in SampleImages
       /\ PyStr(B64Encode(hd_out.value.bytes)) = hd_resp.value.d.result.d.images.l[1]

C10_Witness ==
  /\ hd_pc = "Succeeded"
  /\ hd_args.prompt = <<" ", "a", " ">>
  /\ hd_data[1].data.d.prompt = <<"a">>
  /\ hd_out.value = PyImage(<<137, 80, 78>>)

OffStride(n) == 256 <= n /\ n <= 1024 /\ n % 64 # 0
WidthText == "Width must be between 256-1024 and divisible by 64"
HeightText == "Height must be between 256-1024 and divisible by 64"

\* the most recent call is one of generate_hd_image(prompt, width, height,
\* num_inference_steps, guidance_scale) under an orchestrator
HdCall == Called /\ last.page = "generate" /\ "width" \in DOMAIN last.args

\* C11: every orchestrated generate_hd_image call whose width or height
\* lies in 256..1024 and is no multiple of 64 ends as a validation failure
\* (a ValueError of the function, caught by the orchestrator) whose message
\* names an offending field, sends no request, and appends exactly one
\* event-log entry, the entry of a failure.
C11_OffStrideIsValidationFailure ==
  (HdCall /\ (OffStride(last.args.width) \/ OffStride(last.args.height))) =>
    /\ ~last.escaped
    /\ last.fn.kind = "raise"
    /\ IsSubclass(last.fn.exc.cls, "ValueError")
    /\ last.invoked = 0
    /\ last.fn.sent = << >>
    /\ Len(LogAfter) = Len(LogBefore) + 1
    /\ EntryFailed
    /\ NewEntry.error.t = "str"
    /\ \/ OffStride(last.args.width) /\ WidthText \in Pieces(NewEntry.error)
       \/ OffStride(last.args.height) /\ HeightText \in Pieces(NewEntry.error)

\* C12: no event log ever holds more than the cap: generation_history,
\* api_calls and performance_data all stay within HistoryCap entries.
C12_LogsCapped ==
  \A s \in Sessions :
    /\ Len(ss[s].generation_history) <= HistoryCap
    /\ Len(ss[s].api_calls) <= HistoryCap
    /\ Len(ss[s].performance_data) <= HistoryCap

Appended == Called /\ Len(LogAfter) = Len(LogBefore) + 1

\* C13: the entry a call appends tells how the call ended.  In app_cleaned
\* its success flag is TRUE exactly when the wrapped function returned (no
\* exception was caught) and it carries an error text exactly when one was
\* caught; in app_improved its status is "success" exactly when
\* make_api_call returns the error None, and its error is the error returned.
C13_EntrySummarisesOutcome ==
  Appended =>
    /\ ~last.escaped
    /\ SubSeq(LogAfter, 1, Len(LogBefore)) = LogBefore
    /\ IF app = "cleaned"
       THEN /\ NewEntry.success = (last.fn.kind = "return")
            /\ (NewEntry.error # PyNone) = (last.fn.kind = "raise")
            /\ NewEntry.success => last.result = last.fn.value /\ last.shown = PyNone
            /\ ~NewEntry.success =>
                 /\ last.result = PyNone
                 /\ NewEntry.error =
                      PyStr(<<SafeHandler(last.fn.exc), ": ">> \o last.fn.exc.msg)
       ELSE /\ NewEntry.status \in {"success", "error"}
            /\ (NewEntry.status = "success") = (last.error = PyNone)
            /\ (NewEntry.status = "success") = (last.fn.kind = "return")
            /\ NewEntry.error = last.error
            /\ NewEntry.status = "success" => last.result = last.fn.value
            /\ NewEntry.status = "error" =>
                 last.result = PyNone /\ last.error = PyStr(last.fn.exc.msg)

C13_Witness ==
  /\ Appended
  /\ app = "improved"
  /\ last.net = NetTimeout
  /\ NewEntry.status = "error"
  /\ NewEntry.error =
       PyStr(<<"Request timeout after ", "60", "s for ", "v1/text-to-image">>)
  /\ Len(LogAfter) = 2
  /\ LogAfter[1].status = "success"

RqDone == rq_pc \in {"Returned", "Raised"}
Supported(m) == Upper(m) \in {<<"P", "O", "S", "T">>, <<"G", "E", "T">>}

\* C14: make_request returns a value only for a response of status 200;
\* every other outcome (another status, a timeout, a connection failure, an
\* unsupported method, a body that does not parse) ends in a
\* RequestException and in no other exception; a method other than POST and
\* GET, in any letter case, sends no request.
C14_ReturnsOnly200 ==
  RqDone =>
    /\ rq_pc = "Returned" =>
         /\ rq_out.kind = "return"
         /\ rq_net.t = "response" /\ rq_net.status = 200
         /\ rq_out.value = rq_net.json
         /\ Supported(rq_in.method)
    /\ rq_pc = "Raised" =>
         /\ rq_out.kind = "raise"
         /\ rq_out.exc.cls = "RequestException"
         /\ \/ ~Supported(rq_in.method)
            \/ rq_net.t \in {"timeout", "connection", "other"}
            \/ rq_net.t = "response" /\ rq_net.status # 200
            \/ rq_net.t = "response" /\ rq_net.json = NotJson
    /\ ~Supported(rq_in.method) => rq_pc = "Raised" /\ rq_out.sent = << >>
    /\ (rq_net.t = "response" /\ rq_net.status = 200 /\ rq_net.json # NotJson)
         => rq_pc = "Returned"

C14_Witness ==
  /\ rq_pc = "Raised"
  /\ rq_in.method = <<"p", "u", "t">>
  /\ rq_in.files # PyNone
  /\ rq_out.sent = << >>
  /\ rq_out.exc = Exc("RequestException",
                      <<"Unexpected error for ", rq_in.endpoint, ": ",
                        "Unsupported HTTP method: ", "p", "u", "t">>)

\* the one line per call: endpoint, status and duration of the request
IsRequestLine(l, method, endpoint) ==
  LET n == Len(method) IN
  /\ Len(l.msg) = n + 8
  /\ l.msg[1] = "API Request: "
  /\ SubSeq(l.msg, 2, n + 1) = method
  /\ l.msg[n + 3] = endpoint
  /\ l.msg[n + 4] = " - Status: "
  /\ l.msg[n + 6] = " - Duration: "

\* C16: every invocation of make_request logs exactly one line, and that
\* line holds the endpoint, the status and the duration, whatever the
\* outcome.
C16_OneLogLinePerCall ==
  RqDone =>
    /\ Len(rq_out.lines) = 1
    /\ IsRequestLine(rq_out.lines[1], rq_in.method, rq_in.endpoint)

\* the number of images in a parsed body of the shape {result: {images: [...]}}
VendorCount(body) == Len(body.d.result.d.images.l)

\* the number of images in what generate_hd_image returns
ReturnedCount(v) ==
  CASE v.t = "Image" -> 1
    [] v.t = "list" -> Len(v.l)
    [] OTHER -> 0

\* C15: when generate_hd_image succeeds on a status-200 response, it hands
\* the caller as many images as the response carries under result.images:
\* one for one, N for N.
C15_ImageCountPreserved ==
  hd_pc = "Succeeded" => ReturnedCount(hd_out.value) = VendorCount(hd_resp.value)

NoKey == ~Truthy(env)

\* C17: with BRIA_API_KEY absent (or empty) the application fails when it
\* starts: in neither variant does a session get to issue an orchestrated
\* call or a request; its script run ends at the import of the services or
\* at the key validation of the sidebar, and nothing is ever logged.
C17_NoKeyNoCall ==
  NoKey =>
    /\ last = NoCall
    /\ \A s \in Sessions :
         /\ boot[s] \in {"none", "import failed", "stopped"}
         /\ calls[s] = 0
         /\ appends[s] = 0
         /\ ss[s].generation_history = << >>
         /\ ss[s].api_calls = << >>
         /\ ~ENABLED CallSafe(s)
         /\ ~ENABLED CallManager(s)

\* the same, for app_cleaned only, whose main() stops at st.stop()
C17_CleanedNoKeyNoCall == app = "cleaned" => C17_NoKeyNoCall

\* the event log and the counters of session s hold its own calls, no more
\* and no fewer
OwnCallsLogged(s) ==
  IF app = "cleaned"
  THEN /\ Len(ss[s].generation_history) = calls[s]
       /\ ss[s].performance_metrics.total_generations = calls[s]
       /\ ss[s].performance_metrics.successful_generations
            + ss[s].performance_metrics.error_count = calls[s]
  ELSE /\ Len(ss[s].api_calls) = calls[s]
       /\ Len(ss[s].performance_data) = calls[s]

\* C18: with sessions interleaving their calls in any order, the event log
\* and the counters of every session reflect exactly the calls of that
\* session.
C18_SessionsIndependent == \A s \in Sessions : OwnCallsLogged(s)

Failed == Called /\ (last.fn.kind = "raise" \/ last.escaped)

\* the text shown names the operation: safe_api_call puts the operation
\* name into it, the page of app_improved starts it with "Generation failed"
NamesOperation(text) ==
  IF app = "cleaned" THEN last.operation \in Pieces(text)
  ELSE text.s[1] = "Generation failed: "

\* C19: every failed orchestrated call whose script runs on to its end shows
\* the user a message that names the category of the failure and the
\* operation, in both variants.
C19_FailureNamesCategoryAndOperation ==
  (Failed /\ ~last.stopped) =>
    /\ last.shown # PyNone
    /\ Pieces(last.shown) \cap Categories # {}
    /\ NamesOperation(last.shown)

StoredBefore == [generated_images |-> last.before.generated_images,
                 edited_image |-> last.before.edited_image]
StoredAfter == [generated_images |-> ss[last.session].generated_images,
                edited_image |-> ss[last.session].edited_image]

\* C20: a failed orchestrated call leaves the stored results as they were:
\* generated_images and edited_image of the session keep their values; and
\* generated_images differs after a call only if that call succeeded with a
\* result.
C20_FailureKeepsResults ==
  Called =>
    /\ Failed => StoredAfter = StoredBefore
    /\ StoredAfter.generated_images # StoredBefore.generated_images =>
         /\ ~Failed
         /\ last.fn.kind = "return"
         /\ Truthy(last.result)
         /\ last.result = last.fn.value
    /\ \A t \in Sessions \ {last.session} : calls[t] = 0 =>
         /\ ss[t].generated_images = PyList(<< >>)
         /\ ss[t].edited_image = PyNone

C20_Witness ==
  /\ Failed
  /\ calls[last.session] = 2
  /\ StoredBefore.generated_images # PyList(<< >>)
  /\ StoredAfter = StoredBefore
  /\ last.shown # PyNone

VfDone == vf_service # NoOutcome /\ vf_page # NoOutcome
ServiceAccepts == vf_service.kind = "return" /\ vf_service.value = PyBool(TRUE)
PageAccepts == vf_page.kind = "return" /\ vf_page.value.l[1] = PyBool(TRUE)
IsUpload == vf_file.t = "file" /\ vf_file.has_size /\ vf_file.has_type

\* the rule of the claim, stated on its own
Acceptable ==
  /\ vf_file.size <= 10485760
  /\ vf_file.type \in {"image/jpeg", "image/png", "image/webp"}

\* C21: an uploaded file (an object with a size and a type) is accepted
\* exactly when its size is at most 10 MiB, the bound included, and its
\* type is image/jpeg, image/png or image/webp; validate_image_file and
\* validate_image accept the same uploaded files, and both reject a missing
\* file (None).
C21_ValidatorsAgree ==
  VfDone =>
    /\ IsUpload => /\ ServiceAccepts = Acceptable
                   /\ PageAccepts = Acceptable
                   /\ vf_page.kind = "return"
                   /\ ~ServiceAccepts => vf_service.exc.cls = "ValueError"
    /\ vf_file = PyNone => ~ServiceAccepts /\ ~PageAccepts

C21_Witness ==
  /\ VfDone
  /\ IsUpload
  /\ vf_file.size = 10485760
  /\ vf_file.type = "image/webp"
  /\ ServiceAccepts
  /\ PageAccepts

\* the status-200 body whose result.images[0] is the base64 text of bytes b
EncodedBody(b) == BodyImages(<<PyStr(B64Encode(b))>>)

\* C22: round trip.  For every image b, when the base64 text of b is the
\* image payload of a status-200 response, the response handling of
\* generate_hd_image ends with an image whose bytes are exactly b.
C22_Base64RoundTrip ==
  (HdTerminal /\ hd_resp.kind = "return") =>
    \A b \in SampleImages :
      hd_resp.value = EncodedBody(b) =>
        /\ hd_pc = "Succeeded"
        /\ hd_out.kind = "return"
        /\ hd_out.value = PyImage(b)

C22_Witness ==
  /\ hd_pc = "Succeeded"
  /\ hd_resp.value = EncodedBody(<<255, 251, 239, 190, 0>>)
  /\ hd_resp.value.d.result.d.images.l[1].s = <<"/", "/", "v", "v", "v", "g", "A", "=">>
  /\ hd_out.value.bytes = <<255, 251, 239, 190, 0>>

Smaller(a, b) == IF a <= b THEN a ELSE b

\* the entry the k-th call of a long run in session s leaves in the history
LongEntry(s, k) ==
  [timestamp |-> 2 * k, operation |-> "Element Erasing", duration |-> 2,
   success |-> (s = 1 /\ (k - 1) % 3 # 2),
   error |-> IF s = 1 /\ (k - 1) % 3 # 2 THEN PyNone
             ELSE IF s = 1 THEN PyStr(<<"Invalid input", ": ", "bad input">>)
             ELSE PyStr(<<"Unexpected error", ": ">>)]

\* C23: after n calls of log_generation_attempt, generation_history is
\* exactly the entries of the most recent min(n, 100) calls, in call order
\* and as they were appended: a call appends its entry at the end, drops the
\* oldest entry only when the history was full, and leaves every other
\* entry where and as it was.
C23_HistoryIsRecentCalls ==
  app = "cleaned" =>
    /\ \A s \in Sessions :
         LET h == ss[s].generation_history
             n == appends[s]
         IN /\ Len(h) = Smaller(n, 100)
            /\ \A i \in 1..Len(h) : h[i] = LongEntry(s, n - Len(h) + i)
    /\ Called =>
         LET kept == IF Len(LogBefore) = 100 THEN Tail(LogBefore) ELSE LogBefore
         IN SubSeq(LogAfter, 1, Len(LogAfter) - 1) = kept

C23_Witness ==
  /\ app = "cleaned"
  /\ appends[1] = 102
  /\ Len(LogBefore) = 100
  /\ Len(LogAfter) = 100
  /\ LogAfter[1].timestamp = 6
  /\ LogAfter[1].success = FALSE
  /\ LogAfter[100].timestamp = 204

MetricsBefore == last.before.performance_metrics
MetricsAfter == ss[last.session].performance_metrics

\* C28: in every session total_generations = successful_generations +
\* error_count; and a call of log_generation_attempt adds one to
\* total_generations and one to exactly one of successful_generations and
\* error_count, leaving the other as it was.
C28_CountersAddUp ==
  app = "cleaned" =>
    /\ \A s \in Sessions :
         LET m == ss[s].performance_metrics
         IN /\ m.total_generations = m.successful_generations + m.error_count
            /\ m.total_generations = appends[s]
    /\ (Called /\ Appended) =>
         /\ MetricsAfter.total_generations = MetricsBefore.total_generations + 1
         /\ \/ /\ MetricsAfter.successful_generations = MetricsBefore.successful_generations + 1
               /\ MetricsAfter.error_count = MetricsBefore.error_count
            \/ /\ MetricsAfter.successful_generations = MetricsBefore.successful_generations
               /\ MetricsAfter.error_count = MetricsBefore.error_count + 1

C28_Witness ==
  /\ app = "cleaned"
  /\ Appended
  /\ MetricsAfter.total_generations = 2
  /\ MetricsAfter.successful_generations = 1
  /\ MetricsAfter.error_count = 1
  /\ MetricsBefore.error_count = 0

\* the number of entries of history h logged with success = True
SuccessEntries(h) == Cardinality({i \in 1..Len(h) : h[i].success})

\* C29: in every session len(generation_history) = min(total_generations,
\* 100), and the entries of generation_history with success = True are never
\* more than successful_generations.
C29_HistoryMatchesCounters ==
  app = "cleaned" =>
    \A s \in Sessions :
      LET h == ss[s].generation_history
          m == ss[s].performance_metrics
      IN /\ Len(h) = Smaller(m.total_generations, 100)
         /\ SuccessEntries(h) <= m.successful_generations

C29_Witness ==
  /\ app = "cleaned"
  /\ ss[1].performance_metrics.total_generations = 102
  /\ ss[1].performance_metrics.successful_generations = 68
  /\ Len(ss[1].generation_history) = 100
  /\ SuccessEntries(ss[1].generation_history) = 66

\* the sum of the durations of the entries of h logged with success = True
RECURSIVE SuccessDurations(_)
SuccessDurations(h) ==
  IF h = << >> THEN 0
  ELSE (IF Head(h).success THEN Head(h).duration ELSE 0) + SuccessDurations(Tail(h))

\* C24: average_generation_time is the arithmetic mean of the durations of
\* all attempts logged with success = True: average x successful_generations
\* = the sum of those durations, also when a successful attempt took 0
\* seconds.
C24_AverageIsMean ==
  app = "cleaned" =>
    \A s \in Sessions :
      LET m == ss[s].performance_metrics
          avg == m.average_generation_time
      IN avg.num * m.successful_generations
           = SuccessDurations(ss[s].generation_history) * avg.den

\* which of the five rules, in the order prompt, width, height,
\* num_inference_steps, guidance_scale, the argument set a breaks
Broken(a) ==
  <<Blank(a.prompt), ~GoodDim(a.width), ~GoodDim(a.height),
    a.num_inference_steps \notin 10..50, a.guidance_scale \notin 10..200>>

BrokenCount(a) == Cardinality({i \in 1..5 : Broken(a)[i]})
FirstBroken(a) == CHOOSE i \in 1..5 : Broken(a)[i] /\ \A j \in 1..(i - 1) : ~Broken(a)[j]

\* the error text of each rule; each names its own field and no other
RuleTexts ==
  <<"Prompt cannot be empty", WidthText, HeightText,
    "Inference steps must be between 10-50", "Guidance scale must be between 1.0-20.0">>

\* C25: an argument set that breaks several rules at once fails at
\* validation on the first rule broken in the order prompt, width, height,
\* num_inference_steps, guidance_scale: the one exception raised carries the
\* text of that rule only, and the call ends there, with no later stage.
C25_FirstViolatedRuleReported ==
  (HdValidated /\ BrokenCount(hd_args) >= 1) =>
    /\ hd_pc = "ValidationFailed"
    /\ hd_stages = <<"Validating", "ValidationFailed">>
    /\ hd_out.kind = "raise"
    /\ hd_out.exc.cls = "ValueError"
    /\ hd_out.exc.msg = <<RuleTexts[FirstBroken(hd_args)]>>
    /\ hd_data = << >>
    /\ ~ENABLED (HdBegin \/ HdValidate \/ HdSend \/ HdReceive \/ HdParse)

C25_Witness ==
  /\ hd_pc = "ValidationFailed"
  /\ ~Blank(hd_args.prompt)
  /\ hd_args.width = 300
  /\ hd_args.height = 1025
  /\ hd_args.num_inference_steps = 51
  /\ hd_args.guidance_scale = 201
  /\ BrokenCount(hd_args) = 4
  /\ hd_out.exc.msg = <<WidthText>>

\* C26: whenever make_api_call runs in a session, the lists
\* performance_data and api_calls of that session exist, and the call
\* appends one record to each of them; in every session that is ready, the
\* first of the process or a later one.
C26_MonitorListsExist ==
  app = "improved" =>
    /\ \A s \in Sessions : Ready(s) => MonitorKeys \subseteq ss[s].keys
    /\ Called =>
         /\ MonitorKeys \subseteq last.before.keys
         /\ Len(ss[last.session].performance_data) = Len(last.before.performance_data) + 1
         /\ Len(ss[last.session].api_calls) = Len(last.before.api_calls) + 1

\* the most recent call is the generation a Generate button started
Submitted ==
  /\ Called
  /\ last.page = "generate"
  /\ last.operation \in {"hd_image_generation", "HD Image Generation"}

\* C27: in both variants the prompt submitted for generation is the text in
\* the prompt field at that moment, or the enhancement made of exactly that
\* text; never an enhancement made of an earlier, different text.
C27_SubmittedPromptIsCurrent ==
  Submitted =>
    \/ last.args.prompt = last.before.prompt_widget
    \/ last.args.prompt = EnhancedText(last.before.prompt_widget)

\* the same, for app_cleaned only
C27_CleanedSubmitsCurrent == app = "cleaned" => C27_SubmittedPromptIsCurrent

====
